---- MODULE Spec2Model ----
(***************************************************************************)
(* A model of rusty_adams (misc/rusty_adams): the tokenizer, the token     *)
(* stream, the decoder (game/parser.rs) and the encoder (game/writer.rs)   *)
(* of Scott Adams adventure data files.                                    *)
(*                                                                         *)
(* Bytes are one-character strings, a file is a sequence of bytes and a    *)
(* Rust String is a sequence of characters.  Integers are Rust i32: `/`    *)
(* and `%` truncate toward zero.                                           *)
(***************************************************************************)
EXTENDS Integers, Sequences, FiniteSets, TLC

(***************************************************************************)
(* Bounds of the model.                                                    *)
(***************************************************************************)
\* every section of a generated file holds 0..MaxCount entries
MaxCount == 2

\* Stream::new is run on every sequence of at most MaxBytes bytes of Alphabet
MaxBytes == 4

\* a user of a Stream makes at most MaxPulls calls on it
MaxPulls == 3
\* packed conditions -BoundCond..BoundCond are decoded (and the i32 extremes)
BoundCond == 60
\* packed pairs -BoundPair..BoundPair are decoded (and larger samples)
BoundPair == 160
\* sub-action opcodes -BoundOp..150+BoundOp are decoded (and the i32 extremes)
BoundOp == 5

(***************************************************************************)
(* i32 arithmetic.                                                         *)
(***************************************************************************)
MaxI32 == 2147483647
MinI32 == -2147483647 - 1

\* Rust's a / b on i32 for b > 0: the quotient rounded toward zero.
TruncDiv(a, b) == IF a >= 0 THEN a \div b ELSE (a + (b - 1)) \div b

\* Rust's a % b on i32 for b > 0: the remainder has the sign of a.
TruncRem(a, b) == a - b * TruncDiv(a, b)

\* a * k on i32 for a constant k > 0; ovf when the product leaves the i32 range
\* (a panic in a debug build, a wrapped value in a release build).
CheckedMul(a, k) ==
    IF a > MaxI32 \div k \/ a < TruncDiv(MinI32, k)
    THEN [ovf |-> TRUE, val |-> 0]
    ELSE [ovf |-> FALSE, val |-> a * k]

\* a + b on i32; ovf when the sum leaves the i32 range.
CheckedAdd(a, b) ==
    IF (b > 0 /\ a > MaxI32 - b) \/ (b < 0 /\ a < MinI32 - b)
    THEN [ovf |-> TRUE, val |-> 0]
    ELSE [ovf |-> FALSE, val |-> a + b]

(***************************************************************************)
(* Characters.                                                             *)
(***************************************************************************)
Digits == <<"0", "1", "2", "3", "4", "5", "6", "7", "8", "9">>

\* char::is_ascii_digit
is_ascii_digit(ch) == \E d \in 1..10 : Digits[d] = ch

\* char::is_ascii_whitespace: space, tab, line feed, form feed, carriage return
is_ascii_whitespace(ch) == ch \in {" ", "\t", "\n", "\f", "\r"}

DigitVal(ch) == (CHOOSE d \in 1..10 : Digits[d] = ch) - 1

\* str::parse::<i32> on the tokenizer's accumulator (an optional '-' and at
\* least one digit): the digits are folded from the left with checked
\* arithmetic, downward for a negative literal.
RECURSIVE ParseDigits(_, _, _)
ParseDigits(s, neg, r) ==
    IF s = <<>> THEN [ok |-> TRUE, val |-> r]
    ELSE LET m == CheckedMul(r, 10)
             a == CheckedAdd(m.val, IF neg THEN -DigitVal(Head(s)) ELSE DigitVal(Head(s)))
         IN IF m.ovf \/ a.ovf THEN [ok |-> FALSE, val |-> 0]
            ELSE ParseDigits(Tail(s), neg, a.val)

\* str::parse::<i32> clamping a literal out of range to the nearest i32
parse_i32_saturating(s) ==
    IF s = <<>> \/ s = <<"-">> THEN [ok |-> FALSE, val |-> 0]
    ELSE LET r == IF Head(s) = "-" THEN ParseDigits(Tail(s), TRUE, 0) ELSE ParseDigits(s, FALSE, 0)
         IN IF r.ok THEN r
            ELSE [ok |-> TRUE, val |-> IF Head(s) = "-" THEN MinI32 ELSE MaxI32]

\* str::parse::<i32> on the accumulator: '-' or nothing, then digits
parse_i32(s) ==
    IF s = <<>> THEN [ok |-> FALSE, val |-> 0]
    ELSE IF Head(s) = "-" THEN
         (IF Tail(s) = <<>> THEN [ok |-> FALSE, val |-> 0]
          ELSE ParseDigits(Tail(s), TRUE, 0))
    ELSE ParseDigits(s, FALSE, 0)

\* Display for i32 (the "{}" of writeln!): decimal digits, '-' first when negative.
RECURSIVE PosDigits(_)
PosDigits(n) ==
    IF n < 10 THEN <<Digits[n + 1]>>
    ELSE PosDigits(n \div 10) \o <<Digits[(n % 10) + 1]>>

RECURSIVE NegDigits(_)
NegDigits(n) ==
    IF n > -10 THEN <<Digits[(-n) + 1]>>
    ELSE NegDigits(TruncDiv(n, 10)) \o <<Digits[(-TruncRem(n, 10)) + 1]>>

fmt_i32(n) == IF n >= 0 THEN PosDigits(n) ELSE <<"-">> \o NegDigits(n)

\* str::starts_with("*")
starts_with_star(s) == s # <<>> /\ Head(s) = "*"

RECURSIVE Flatten(_)
Flatten(ss) == IF ss = <<>> THEN <<>> ELSE Head(ss) \o Flatten(Tail(ss))

(***************************************************************************)
(* game.rs: Condition.                                                     *)
(***************************************************************************)
\* the variants of enum Condition in the order of their type numbers 0..19
ConditionVariants ==
    << "Parameter", "ItemCarried", "ItemInRoom", "ItemPresent", "PlayerInRoom",
       "ItemNotInRoom", "ItemNotCarried", "PlayerNotInRoom", "BitSet", "BitClear",
       "InventoryNotEmpty", "InventoryEmpty", "ItemNotPresent", "ItemInGame",
       "ItemNotInGame", "CounterLE", "CounterGE", "ItemMoved", "ItemNotMoved",
       "CounterEQ" >>

\* num % 20, the value Condition::from_i32 and parse_condition match on
CondRem(num) == TruncRem(num, 20)

\* let param = num / 20
CondParam(num) == TruncDiv(num, 20)

Condition_from_i32(num) ==
    LET param == CondParam(num)
        typ == CondRem(num)
    IN IF typ \in 0..19
       THEN [variant |-> ConditionVariants[typ + 1], value |-> param]
       ELSE [variant |-> "Invalid", typ |-> typ, value |-> param]

\* cond.cond_type as the writer reads it: the type number of the variant
cond_type(c) ==
    IF c.variant = "Invalid" THEN c.typ
    ELSE (CHOOSE t \in 1..20 : ConditionVariants[t] = c.variant) - 1

Condition_to_i32(c) ==
    LET m == CheckedMul(c.value, 20)
        a == CheckedAdd(cond_type(c), m.val)
    IN [ovf |-> m.ovf \/ a.ovf, val |-> a.val]

(***************************************************************************)
(* game.rs: ActionType.  A value is a record with the variant's name and   *)
(* its payload: index (Message), dup (RemoveItem, DescribeRoom), raw       *)
(* (Invalid; also Generic, the raw sub-action parse_action stores and      *)
(* write_action matches on).                                               *)
(***************************************************************************)
\* 1..=51 => ActionType::Message(num - 1)
Message_from_low(num) == num - 1

\* 102..=150 => ActionType::Message(num - 51)
Message_from_high_restart(num) == num - 102

\* 102..=150 => ActionType::Message(num): the opcode taken for the index
Message_from_high_raw(num) == num

Message_from_high(num) == num - 51

ActionType_from_i32(num) ==
    CASE num = 0 -> [variant |-> "Nothing"]
      [] num \in 1..51 -> [variant |-> "Message", index |-> Message_from_low(num)]
      [] num = 52 -> [variant |-> "GetItem"]
      [] num = 53 -> [variant |-> "DropItem"]
      [] num = 54 -> [variant |-> "MovePlayer"]
      [] num = 55 -> [variant |-> "RemoveItem", dup |-> FALSE]
      [] num = 56 -> [variant |-> "SetDarkness"]
      [] num = 57 -> [variant |-> "ClearDarkness"]
      [] num = 58 -> [variant |-> "SetBit"]
      [] num = 59 -> [variant |-> "RemoveItem", dup |-> TRUE]
      [] num = 60 -> [variant |-> "ClearBit"]
      [] num = 61 -> [variant |-> "Death"]
      [] num = 62 -> [variant |-> "PutItem"]
      [] num = 63 -> [variant |-> "GameOver"]
      [] num = 64 -> [variant |-> "DescribeRoom", dup |-> FALSE]
      [] num = 65 -> [variant |-> "Score"]
      [] num = 66 -> [variant |-> "Inventory"]
      [] num = 67 -> [variant |-> "SetBit0"]
      [] num = 68 -> [variant |-> "ClearBit0"]
      [] num = 69 -> [variant |-> "RefillLight"]
      [] num = 70 -> [variant |-> "ClearScreen"]
      [] num = 71 -> [variant |-> "SaveGame"]
      [] num = 72 -> [variant |-> "SwapItems"]
      [] num = 73 -> [variant |-> "Continue"]
      [] num = 74 -> [variant |-> "TakeItem"]
      [] num = 75 -> [variant |-> "MoveItemToItem"]
      [] num = 76 -> [variant |-> "DescribeRoom", dup |-> TRUE]
      [] num = 77 -> [variant |-> "DecrementCounter"]
      [] num = 78 -> [variant |-> "PrintCounter"]
      [] num = 79 -> [variant |-> "SetCounter"]
      [] num = 80 -> [variant |-> "SwapLocation"]
      [] num = 81 -> [variant |-> "SelectCounter"]
      [] num = 82 -> [variant |-> "AddToCounter"]
      [] num = 83 -> [variant |-> "SubFromCounter"]
      [] num = 84 -> [variant |-> "EchoNoun"]
      [] num = 85 -> [variant |-> "EchoNounCR"]
      [] num = 86 -> [variant |-> "EchoCR"]
      [] num = 87 -> [variant |-> "SwapLocationN"]
      [] num = 88 -> [variant |-> "Delay"]
      [] num = 89 -> [variant |-> "DrawPicture"]
      [] num \in 102..150 -> [variant |-> "Message", index |-> Message_from_high(num)]
      [] OTHER -> [variant |-> "Invalid", raw |-> num]

\* ActionType::RemoveItem(dup) => if !dup { 55 } else { 59 }
RemoveItem_to_i32_collapsed(dup) == 55

RemoveItem_to_i32(dup) == IF ~dup THEN 55 ELSE 59

\* ActionType::DescribeRoom(dup) => if !dup { 64 } else { 76 }
DescribeRoom_to_i32(dup) == IF ~dup THEN 64 ELSE 76

ActionType_to_i32(a) ==
    CASE a.variant = "Nothing" -> 0
      [] a.variant = "Message" ->
            (CASE a.index \in 0..50 -> a.index + 1
               [] a.index \in 51..99 -> a.index + 51
               [] OTHER -> 0)
      [] a.variant = "GetItem" -> 52
      [] a.variant = "DropItem" -> 53
      [] a.variant = "MovePlayer" -> 54
      [] a.variant = "RemoveItem" -> RemoveItem_to_i32(a.dup)
      [] a.variant = "SetDarkness" -> 56
      [] a.variant = "ClearDarkness" -> 57
      [] a.variant = "SetBit" -> 58
      [] a.variant = "ClearBit" -> 60
      [] a.variant = "Death" -> 61
      [] a.variant = "PutItem" -> 62
      [] a.variant = "GameOver" -> 63
      [] a.variant = "DescribeRoom" -> DescribeRoom_to_i32(a.dup)
      [] a.variant = "Score" -> 65
      [] a.variant = "Inventory" -> 66
      [] a.variant = "SetBit0" -> 67
      [] a.variant = "ClearBit0" -> 68
      [] a.variant = "RefillLight" -> 69
      [] a.variant = "ClearScreen" -> 70
      [] a.variant = "SaveGame" -> 71
      [] a.variant = "SwapItems" -> 72
      [] a.variant = "Continue" -> 73
      [] a.variant = "TakeItem" -> 74
      [] a.variant = "MoveItemToItem" -> 75
      [] a.variant = "DecrementCounter" -> 77
      [] a.variant = "PrintCounter" -> 78
      [] a.variant = "SetCounter" -> 79
      [] a.variant = "SwapLocation" -> 80
      [] a.variant = "SelectCounter" -> 81
      [] a.variant = "AddToCounter" -> 82
      [] a.variant = "SubFromCounter" -> 83
      [] a.variant = "EchoNoun" -> 84
      [] a.variant = "EchoNounCR" -> 85
      [] a.variant = "EchoCR" -> 86
      [] a.variant = "SwapLocationN" -> 87
      [] a.variant = "Delay" -> 88
      [] a.variant = "DrawPicture" -> 89
      [] a.variant = "Invalid" -> a.raw

(***************************************************************************)
(* tokenizer.rs: Location, Token, TokenError and the Stream's pulls.       *)
(***************************************************************************)
Location(line, col) == [line |-> line, col |-> col]

TokenInt(val, loc) == [kind |-> "Int", val |-> val, loc |-> loc]

TokenStr(val, loc) == [kind |-> "Str", val |-> val, loc |-> loc]

TokenError(loc, msg) == [loc |-> loc, msg |-> msg]

\* the result of a fallible call on the stream `rest` leaves behind
Ok(val, rest) == [ok |-> TRUE, val |-> val, rest |-> rest]

\* a failed call that goes on pulling until the stream is empty
Err_drain(e, rest) == [ok |-> FALSE, err |-> e, rest |-> <<>>]

Err(e, rest) == [ok |-> FALSE, err |-> e, rest |-> rest]

\* Stream::done
done(tokens) == tokens = <<>>

\* next_int looking at the head token and removing it only when it is an integer
next_int_peek(tokens) ==
    IF tokens = <<>>
    THEN Err(TokenError(Location(0, 0), "Unexpected end of stream"), tokens)
    ELSE IF Head(tokens).kind = "Int"
    THEN Ok(Head(tokens).val, Tail(tokens))
    ELSE Err(TokenError(Head(tokens).loc, "Expected an integer, found a string"), tokens)

\* Stream::next_int: pop_front, then match on the popped token
next_int(tokens) ==
    IF tokens = <<>>
    THEN Err(TokenError(Location(0, 0), "Unexpected end of stream"), tokens)
    ELSE IF Head(tokens).kind = "Int"
    THEN Ok(Head(tokens).val, Tail(tokens))
    ELSE Err(TokenError(Head(tokens).loc, "Expected an integer, found a string"), Tail(tokens))

\* next_str giving the digits of an integer head as a string
next_str_coerce(tokens) ==
    IF tokens = <<>>
    THEN Err(TokenError(Location(0, 0), "Unexpected end of stream"), tokens)
    ELSE IF Head(tokens).kind = "Str"
    THEN Ok(Head(tokens).val, Tail(tokens))
    ELSE Ok(fmt_i32(Head(tokens).val), Tail(tokens))

\* Stream::next_str
next_str(tokens) ==
    IF tokens = <<>>
    THEN Err(TokenError(Location(0, 0), "Unexpected end of stream"), tokens)
    ELSE IF Head(tokens).kind = "Str"
    THEN Ok(Head(tokens).val, Tail(tokens))
    ELSE Err(TokenError(Head(tokens).loc, "Expected a string, found an integer"), Tail(tokens))

\* next_token taking the token at the back of the queue
next_token_back(tokens) ==
    IF tokens = <<>> THEN [val |-> [some |-> FALSE, val |-> <<>>], rest |-> tokens]
    ELSE [val |-> [some |-> TRUE, val |-> tokens[Len(tokens)]],
          rest |-> SubSeq(tokens, 1, Len(tokens) - 1)]

\* Stream::next_token: pop_front, an Option<Token>
next_token(tokens) ==
    IF tokens = <<>> THEN [val |-> [some |-> FALSE, val |-> <<>>], rest |-> tokens]
    ELSE [val |-> [some |-> TRUE, val |-> Head(tokens)], rest |-> Tail(tokens)]

(***************************************************************************)
(* game/parser.rs.  Every parse_* operator takes the stream and returns    *)
(* Ok(value, rest) or Err(error, rest), rest being the stream after the    *)
(* pulls made; `?` returns the first Err.                                  *)
(***************************************************************************)
\* ParseError { msg: format!("{}", e) }: the Display of the TokenError,
\* "line:col: msg".  A message is kept as the pieces format! joins: the
\* line and column it starts with (none for a message that has no such
\* prefix), its text and the numbers printed after the text.
ParseErrorOf(e) == [msg |-> [prefix |-> <<e.loc.line, e.loc.col>>, text |-> e.msg, args |-> <<>>]]

_read_int(stream) ==
    LET r == next_int(stream)
    IN IF r.ok THEN r ELSE Err(ParseErrorOf(r.err), r.rest)

_read_str(stream) ==
    LET r == next_str(stream)
    IN IF r.ok THEN r ELSE Err(ParseErrorOf(r.err), r.rest)

\* n successive _read_int(stream)? calls, the values in order
RECURSIVE read_ints(_, _)
read_ints(stream, n) ==
    IF n = 0 THEN Ok(<<>>, stream)
    ELSE LET r == _read_int(stream)
         IN IF ~r.ok THEN r
            ELSE LET rs == read_ints(r.rest, n - 1)
                 IN IF ~rs.ok THEN rs ELSE Ok(<<r.val>> \o rs.val, rs.rest)

\* the "+ 1 // adjust for option base 0" of parse_header on i32: ovf when the
\* sum leaves the i32 range, val being the wrapped sum of a release build
adjust_base0(n) ==
    IF n = MaxI32 THEN [ovf |-> TRUE, val |-> MinI32] ELSE [ovf |-> FALSE, val |-> n + 1]

parse_header(stream) ==
    LET r == read_ints(stream, 12)
    IN IF ~r.ok THEN r
       ELSE Ok([unknown0       |-> r.val[1],
                num_items      |-> adjust_base0(r.val[2]).val,
                num_actions    |-> adjust_base0(r.val[3]).val,
                num_words      |-> adjust_base0(r.val[4]).val,
                num_rooms      |-> adjust_base0(r.val[5]).val,
                max_inventory  |-> r.val[6],
                starting_room  |-> r.val[7],
                num_treasures  |-> r.val[8],
                word_length    |-> r.val[9],
                light_duration |-> r.val[10],
                num_messages   |-> adjust_base0(r.val[11]).val,
                treasure_room  |-> r.val[12]], r.rest)

\* one of the five "+ 1" of parse_header overflows: the integers before it
\* were read, and the count it is applied to is the largest i32
parse_header_overflows(stream) ==
    \E k \in {2, 3, 4, 5, 11} :
       LET r == read_ints(stream, k)
       IN r.ok /\ adjust_base0(r.val[k]).ovf

parse_condition(stream) ==
    LET r == _read_int(stream)
    IN IF ~r.ok THEN r
       ELSE LET num == r.val
                param == CondParam(num)
            IN IF CondRem(num) \in 0..19
               THEN Ok([variant |-> ConditionVariants[CondRem(num) + 1], value |-> param], r.rest)
               ELSE Err([msg |-> [prefix |-> <<>>, text |-> "Invalid condition",
                                  args |-> <<CondRem(num), param>>]], r.rest)

\* the array literal of parse_action: n successive parse_condition(stream)? calls
RECURSIVE parse_conditions(_, _)
parse_conditions(stream, n) ==
    IF n = 0 THEN Ok(<<>>, stream)
    ELSE LET r == parse_condition(stream)
         IN IF ~r.ok THEN r
            ELSE LET rs == parse_conditions(r.rest, n - 1)
                 IN IF ~rs.ok THEN rs ELSE Ok(<<r.val>> \o rs.val, rs.rest)

\* num / 150: the verb index, and the first sub-action of a pair
pair_first(num) == TruncDiv(num, 150)

\* num % 150: the noun index, and the second sub-action of a pair
pair_second_floor(num) == num % 150

pair_second_mod100(num) == TruncRem(num, 100)

pair_second(num) == TruncRem(num, 150)

\* a sub-action as parse_action stores it: the raw integer
Generic(raw) == [variant |-> "Generic", raw |-> raw]

parse_action(stream) ==
    LET r == _read_int(stream)
    IN IF ~r.ok THEN r
       ELSE LET cs == parse_conditions(r.rest, 5)
            IN IF ~cs.ok THEN cs
               ELSE LET ps == read_ints(cs.rest, 2)
                    IN IF ~ps.ok THEN ps
                       ELSE Ok([verb_index |-> pair_first(r.val),
                                noun_index |-> pair_second(r.val),
                                conditions |-> cs.val,
                                actions    |-> << Generic(pair_first(ps.val[1])),
                                                 Generic(pair_second(ps.val[1])),
                                                 Generic(pair_first(ps.val[2])),
                                                 Generic(pair_second(ps.val[2])) >>,
                                comment    |-> [some |-> FALSE, val |-> <<>>]], ps.rest)

\* word.strip_prefix("*").unwrap()
strip_prefix_all(word) ==
    IF starts_with_star(word) /\ starts_with_star(Tail(word)) THEN Tail(Tail(word)) ELSE Tail(word)

strip_prefix(word) == Tail(word)

_read_word(stream) ==
    LET r == _read_str(stream)
    IN IF ~r.ok THEN r
       ELSE LET has_prefix == starts_with_star(r.val)
            IN Ok(<< IF has_prefix THEN strip_prefix(r.val) ELSE r.val, has_prefix >>, r.rest)

\* one iteration of the loop of parse_words: a verb, then a noun
parse_word_pair(stream) ==
    LET verb == _read_word(stream)
    IN IF ~verb.ok THEN verb
       ELSE LET noun == _read_word(verb.rest)
            IN IF ~noun.ok THEN noun
               ELSE Ok(<< [word |-> verb.val[1], is_synonym |-> verb.val[2]],
                          [word |-> noun.val[1], is_synonym |-> noun.val[2]] >>, noun.rest)

parse_room(stream) ==
    LET exits == read_ints(stream, 6)
    IN IF ~exits.ok THEN exits
       ELSE LET desc == _read_word(exits.rest)
            IN IF ~desc.ok THEN desc
               ELSE Ok([exits |-> exits.val, description |-> desc.val[1],
                        is_literal |-> desc.val[2]], desc.rest)

\* Regex ^(?<description>.*)/(?<autograb>.*)/$ of parse_item.  '.' matches any
\* character but '\n' and '$' only the end of the text, so the text matches
\* when it holds no line feed, ends in '/' and holds an earlier '/'; the first
\* group is greedy, so the two groups are split at the last such earlier '/'.
dot_matches(ch) == ch # "\n"

regex_captures(s) ==
    LET n == Len(s)
        slashes == {j \in 1..(n - 1) : s[j] = "/"}
    IN IF n >= 2 /\ s[n] = "/" /\ slashes # {} /\ \A j \in 1..n : dot_matches(s[j])
       THEN LET k == CHOOSE j \in slashes : \A j2 \in slashes : j2 <= j
            IN [matched |-> TRUE,
                description |-> SubSeq(s, 1, k - 1),
                autograb |-> SubSeq(s, k + 1, n - 1)]
       ELSE [matched |-> FALSE, description |-> <<>>, autograb |-> <<>>]

None == [some |-> FALSE, val |-> <<>>]

Some(v) == [some |-> TRUE, val |-> v]

\* parse_item reading the location before the description
parse_item_int_first(stream) ==
    LET l == _read_int(stream)
    IN IF ~l.ok THEN l
       ELSE LET d == _read_str(l.rest)
            IN IF ~d.ok THEN d
               ELSE Ok([description |-> d.val, location |-> l.val,
                        is_treasure |-> starts_with_star(d.val), autograb |-> None], d.rest)

parse_item(stream) ==
    LET d == _read_str(stream)
    IN IF ~d.ok THEN d
       ELSE LET l == _read_int(d.rest)
            IN IF ~l.ok THEN l
               ELSE LET caps == regex_captures(d.val)
                    IN Ok([description |-> IF caps.matched THEN caps.description ELSE d.val,
                           location    |-> l.val,
                           is_treasure |-> starts_with_star(d.val),
                           autograb    |-> IF caps.matched THEN Some(caps.autograb) ELSE None],
                          l.rest)

\* parse_comment storing every comment it reads, the empty one too
parse_comment_keep_empty(stream, action) ==
    LET c == _read_str(stream)
    IN IF ~c.ok THEN c
       ELSE Ok([action EXCEPT !.comment = Some(c.val)], c.rest)

\* one iteration of the loop of parse_comments on `action`
parse_comment(stream, action) ==
    LET c == _read_str(stream)
    IN IF ~c.ok THEN c
       ELSE Ok(IF c.val # <<>> THEN [action EXCEPT !.comment = Some(c.val)] ELSE action, c.rest)

\* parse_footer pulling whatever follows the third integer as well
parse_footer_drain(stream) ==
    LET r == read_ints(stream, 3)
    IN IF ~r.ok THEN r
       ELSE Ok([version |-> r.val[1], adventure |-> r.val[2], magic |-> r.val[3]], <<>>)

parse_footer(stream) ==
    LET r == read_ints(stream, 3)
    IN IF ~r.ok THEN r
       ELSE Ok([version |-> r.val[1], adventure |-> r.val[2], magic |-> r.val[3]], r.rest)

(***************************************************************************)
(* game/writer.rs.  Every writeln! is one write to the sink; a write_*     *)
(* operator gives the sequence of its writes, in order.                    *)
(***************************************************************************)
\* write_int without the space before the integer
write_int_tight(n) == fmt_i32(n) \o <<" ", "\n">>

\* writeln!(writer, " {} ", n)
write_int(n) == <<" ">> \o fmt_i32(n) \o <<" ", "\n">>

\* writeln!(writer, r#""{}""#, s)
write_quoted(s) == <<"\"">> \o s \o <<"\"", "\n">>

\* the "- 1" of write_header on i32: ovf when the difference leaves the i32
\* range, val being the wrapped difference of a release build
unadjust_base0(n) ==
    IF n = MinI32 THEN [ovf |-> TRUE, val |-> MaxI32] ELSE [ovf |-> FALSE, val |-> n - 1]

\* one of the five "- 1" of write_header overflows
write_header_overflows(header) ==
    \E n \in {header.num_items, header.num_actions, header.num_words, header.num_rooms,
               header.num_messages} : unadjust_base0(n).ovf

write_header(header) ==
    << write_int(header.unknown0),
       write_int(unadjust_base0(header.num_items).val),
       write_int(unadjust_base0(header.num_actions).val),
       write_int(unadjust_base0(header.num_words).val),
       write_int(unadjust_base0(header.num_rooms).val),
       write_int(header.max_inventory),
       write_int(header.starting_room),
       write_int(header.num_treasures),
       write_int(header.word_length),
       write_int(header.light_duration),
       write_int(unadjust_base0(header.num_messages).val),
       write_int(header.treasure_room) >>

\* a * 150 + b on i32
pack150(a, b) ==
    LET m == CheckedMul(a, 150)
        s == CheckedAdd(m.val, b)
    IN [ovf |-> m.ovf \/ s.ovf, val |-> s.val]

\* write_pair leaving out a pair of two zeros
write_pair_skip_zero(a1, a2) ==
    IF a1.variant = "Generic" /\ a2.variant = "Generic" /\ ~(a1.raw = 0 /\ a2.raw = 0)
    THEN << write_int(pack150(a1.raw, a2.raw).val) >>
    ELSE << >>

\* the second loop of write_action: a pair is written when both of its
\* sub-actions match ActionType::Generic
write_pair(a1, a2) ==
    IF a1.variant = "Generic" /\ a2.variant = "Generic"
    THEN << write_int(pack150(a1.raw, a2.raw).val) >>
    ELSE << >>

\* writeln!(writer, " {} ", cond.cond_type + 20 * cond.value)
write_condition(cond) == write_int(Condition_to_i32(cond).val)

write_action(action) ==
    << write_int(pack150(action.verb_index, action.noun_index).val) >>
    \o [k \in 1..5 |-> write_condition(action.conditions[k])]
    \o write_pair(action.actions[1], action.actions[2])
    \o write_pair(action.actions[3], action.actions[4])

\* an i32 expression of write_action overflows
write_action_overflows(action) ==
    \/ pack150(action.verb_index, action.noun_index).ovf
    \/ \E k \in 1..5 : Condition_to_i32(action.conditions[k]).ovf
    \/ \E k \in {1, 3} : /\ action.actions[k].variant = "Generic"
                         /\ action.actions[k + 1].variant = "Generic"
                         /\ pack150(action.actions[k].raw, action.actions[k + 1].raw).ovf

write_word(word) ==
    IF word.is_synonym
    THEN << write_quoted(<<"*">> \o word.word) >>
    ELSE << write_quoted(word.word) >>

write_room(room) ==
    [k \in 1..6 |-> write_int(room.exits[k])]
    \o (IF room.is_literal
        THEN << write_quoted(<<"*">> \o room.description) >>
        ELSE << write_quoted(room.description) >>)

write_message(message) == << write_quoted(message) >>

\* writeln!(writer, r#""{}" {} "#, description, item.location)
write_item(item) ==
    LET description == IF item.autograb.some
                       THEN item.description \o <<"/">> \o item.autograb.val \o <<"/">>
                       ELSE item.description
    IN << <<"\"">> \o description \o <<"\"", " ">> \o fmt_i32(item.location) \o <<" ", "\n">> >>

write_comment(action) ==
    IF action.comment.some
    THEN << write_quoted(action.comment.val) >>
    ELSE << write_quoted(<<>>) >>

write_footer(footer) ==
    << write_int(footer.version), write_int(footer.adventure), write_int(footer.magic) >>

(***************************************************************************)
(* State.                                                                  *)
(***************************************************************************)
VARIABLES
    data,         \* the bytes of the game file (fs::read)
    offset,       \* Stream::new: the number of bytes consumed
    state,        \* Stream::new: the state of the finite state machine
    acc,          \* Stream::new: the accumulator
    current_loc,  \* Stream::new: current_loc
    token_loc,    \* Stream::new: token_loc
    tokens,       \* the tokens pushed so far, then Stream.tokens
    stored,       \* the tokens Stream::new returned, before any pull
    pc,           \* the step of load_game / write_game about to run
    i,            \* iterations done by the loop of the current section
    header,       \* parse_game: header
    actions,      \* parse_game: actions
    verbs,        \* parse_game: words.0
    nouns,        \* parse_game: words.1
    rooms,        \* parse_game: rooms
    messages,     \* parse_game: messages
    items,        \* parse_game: items
    footer,       \* parse_game: footer
    err,          \* the error load_game returned, if any
    out,          \* the writes write_game made to its sink, in order
    num,          \* the integer handed to a packing function
    decoded,      \* what the decoding function returned for num
    encoded,      \* what the encoding function returned for decoded
    upc,          \* the step of the packing round trip about to run
    pulled,       \* the calls a user of a Stream or a Board made on it, with what they returned
    build,        \* the profile the program was built with: overflow checks on or off
    discs,        \* hanoi: Board.discs
    stacks,       \* hanoi: Board.stacks, each stack from its top (index 0) down
    squares,      \* reversi: Board.squares, squares[row][col]
    scores        \* reversi: Board.scores

tokvars == <<data, offset, state, acc, current_loc, token_loc>>

gamevars == <<header, actions, verbs, nouns, rooms, messages, items, footer>>

unitvars == <<num, decoded, encoded, upc>>

vars == <<data, offset, state, acc, current_loc, token_loc, tokens, stored, pc, i,
          header, actions, verbs, nouns, rooms, messages, items, footer, err, out,
          num, decoded, encoded, upc, pulled, build, discs, stacks, squares, scores>>

hanoivars == <<discs, stacks>>

reversivars == <<squares, scores>>

(***************************************************************************)
(* tokenizer.rs: Stream::new, one byte per step.                           *)
(***************************************************************************)
\* the update of current_loc at the top of the loop body
advance(loc, ch) ==
    IF ch = "\n" THEN Location(loc.line + 1, 1) ELSE Location(loc.line, loc.col + 1)

\* what one iteration of the loop leaves behind: the locals as the match arm
\* set them, or the TokenError it returned
Continue(s, a, tl, ts) ==
    [failed |-> FALSE, state |-> s, acc |-> a, token_loc |-> tl, tokens |-> ts]

Fail(loc, msg) == [failed |-> TRUE, err |-> TokenError(loc, msg)]

\* State::Init, loc being current_loc after its update
init_state(st, ch, loc) ==
    IF is_ascii_whitespace(ch) THEN Continue("Init", st.acc, st.token_loc, st.tokens)
    ELSE IF ch = "-" THEN Continue("Sign", Append(st.acc, ch), loc, st.tokens)
    ELSE IF is_ascii_digit(ch) THEN Continue("Num", Append(st.acc, ch), loc, st.tokens)
    ELSE IF ch = "\"" THEN Continue("Quote", st.acc, loc, st.tokens)
    ELSE Fail(loc, <<"Unexpected character", ch>>)

\* State::Sign taking white space for the end of the token
sign_state_lenient(st, ch, loc) ==
    IF is_ascii_digit(ch) THEN Continue("Num", Append(st.acc, ch), st.token_loc, st.tokens)
    ELSE IF is_ascii_whitespace(ch) THEN Continue("Init", <<>>, st.token_loc, st.tokens)
    ELSE Fail(loc, <<"Unexpected character in integer", ch>>)

\* State::Sign
sign_state(st, ch, loc) ==
    IF is_ascii_digit(ch) THEN Continue("Num", Append(st.acc, ch), st.token_loc, st.tokens)
    ELSE Fail(loc, <<"Unexpected character in integer", ch>>)

\* State::Num without the acc.clear() after the push
num_state_keep_acc(st, ch, loc) ==
    IF is_ascii_whitespace(ch)
    THEN (IF parse_i32(st.acc).ok
          THEN Continue("Init", st.acc, st.token_loc,
                        Append(st.tokens, TokenInt(parse_i32(st.acc).val, st.token_loc)))
          ELSE Fail(loc, <<"Malformed integer">>))
    ELSE IF is_ascii_digit(ch) THEN Continue("Num", Append(st.acc, ch), st.token_loc, st.tokens)
    ELSE Fail(loc, <<"Unexpected character in integer", ch>>)

\* State::Num
num_state(st, ch, loc) ==
    IF is_ascii_whitespace(ch)
    THEN (IF parse_i32(st.acc).ok
          THEN Continue("Init", <<>>, st.token_loc,
                        Append(st.tokens, TokenInt(parse_i32(st.acc).val, st.token_loc)))
          ELSE Fail(loc, <<"Malformed integer">>))
    ELSE IF is_ascii_digit(ch) THEN Continue("Num", Append(st.acc, ch), st.token_loc, st.tokens)
    ELSE Fail(loc, <<"Unexpected character in integer", ch>>)

\* State::Quote
quote_state(st, ch, loc) ==
    IF ch = "\\" THEN Continue("Escape", st.acc, st.token_loc, st.tokens)
    ELSE IF ch = "\"" THEN Continue("Init", <<>>, st.token_loc,
                                    Append(st.tokens, TokenStr(st.acc, st.token_loc)))
    ELSE Continue("Quote", Append(st.acc, ch), st.token_loc, st.tokens)

\* State::Escape keeping the backslash in the string
escape_state_keep_backslash(st, ch, loc) ==
    Continue("Quote", st.acc \o <<"\\", ch>>, st.token_loc, st.tokens)

\* State::Escape
escape_state(st, ch, loc) ==
    Continue("Quote", Append(st.acc, ch), st.token_loc, st.tokens)

\* the match on state for the byte ch, loc being current_loc after its update:
\* the new state, accumulator, token_loc and tokens, or the TokenError returned
tokenize_char(st, ch, loc) ==
    CASE st.state = "Init" -> init_state(st, ch, loc)
      [] st.state = "Sign" -> sign_state(st, ch, loc)
      [] st.state = "Num" -> num_state(st, ch, loc)
      [] st.state = "Quote" -> quote_state(st, ch, loc)
      [] st.state = "Escape" -> escape_state(st, ch, loc)

\* the loop of Stream::new run on bytes[k..], s holding the locals (or the
\* TokenError returned) and current_loc
RECURSIVE tokenize_from(_, _, _)
tokenize_from(s, bytes, k) ==
    IF s.st.failed \/ k > Len(bytes) THEN s
    ELSE LET loc == advance(s.loc, bytes[k])
         IN tokenize_from([st |-> tokenize_char(s.st, bytes[k], loc), loc |-> loc], bytes, k + 1)

\* the loop of Stream::new run on the bytes of the writes ws, one after another
RECURSIVE tokenize_writes(_, _)
tokenize_writes(s, ws) ==
    IF ws = <<>> THEN s ELSE tokenize_writes(tokenize_from(s, Head(ws), 1), Tail(ws))

\* Stream::new on the bytes a sink holds after the writes ws: the locals when
\* the loop is left, st.tokens being the tokens of the Stream if st.failed is
\* FALSE and st.err the TokenError if it is TRUE
StreamNew(ws) ==
    tokenize_writes([st |-> Continue("Init", <<>>, Location(1, 1), <<>>), loc |-> Location(1, 1)],
                    ws).st

\* one iteration of the loop of Stream::new
TokenizeStep ==
    /\ pc = "tokenize"
    /\ offset < Len(data)
    /\ LET ch == data[offset + 1]
           loc == advance(current_loc, ch)
           r == tokenize_char([state |-> state, acc |-> acc, token_loc |-> token_loc,
                               tokens |-> tokens], ch, loc)
       IN /\ offset' = offset + 1
          /\ current_loc' = loc
          /\ IF r.failed
             THEN /\ pc' = "failed"
                  /\ err' = [kind |-> "TokenError", err |-> r.err]
                  /\ UNCHANGED <<state, acc, token_loc, tokens>>
             ELSE /\ state' = r.state
                  /\ acc' = r.acc
                  /\ token_loc' = r.token_loc
                  /\ tokens' = r.tokens
                  /\ UNCHANGED <<pc, err>>
    /\ UNCHANGED <<data, stored, i, gamevars, out, unitvars, pulled, build, hanoivars, reversivars>>

\* the end of the input: Ok(Stream { tokens }), whatever the state; load_game
\* goes on to Game::new
TokenizeEnd ==
    /\ pc = "tokenize"
    /\ offset = Len(data)
    /\ stored' = tokens
    /\ pc' = "parse_header"
    /\ UNCHANGED <<tokvars, tokens, i, gamevars, err, out, unitvars, pulled, build, hanoivars, reversivars>>

(***************************************************************************)
(* game/parser.rs: parse_game, one section or one loop iteration per step. *)
(* A failed step returns the ParseError through every `?` up to load_game. *)
(***************************************************************************)
ParseError(e) == [kind |-> "ParseError", err |-> e]

\* let header = parse_header(stream)?;
ParseHeader ==
    /\ pc = "parse_header"
    /\ LET r == parse_header(tokens)
       IN /\ tokens' = r.rest
          /\ IF parse_header_overflows(tokens) /\ build = "debug"
             THEN /\ pc' = "panic"
                  /\ UNCHANGED <<header, err>>
             ELSE IF r.ok
             THEN /\ header' = r.val
                  /\ pc' = "parse_actions"
                  /\ UNCHANGED err
             ELSE /\ pc' = "failed"
                  /\ err' = ParseError(r.err)
                  /\ UNCHANGED header
    /\ i' = 0
    /\ UNCHANGED <<tokvars, stored, out, unitvars, pulled, build, hanoivars, reversivars, actions, verbs, nouns, rooms, messages, items, footer>>

\* parse_actions: actions.push(parse_action(stream)?) for _ in 0..num_actions
ParseAction ==
    /\ pc = "parse_actions"
    /\ i < header.num_actions
    /\ LET r == parse_action(tokens)
       IN /\ tokens' = r.rest
          /\ IF r.ok
             THEN /\ actions' = Append(actions, r.val)
                  /\ i' = i + 1
                  /\ UNCHANGED <<pc, err>>
             ELSE /\ pc' = "failed"
                  /\ err' = ParseError(r.err)
                  /\ UNCHANGED <<actions, i>>
    /\ UNCHANGED <<tokvars, stored, out, unitvars, pulled, build, hanoivars, reversivars, header, verbs, nouns, rooms, messages, items, footer>>

\* parse_actions: Ok(actions)
ParseActionsEnd ==
    /\ pc = "parse_actions"
    /\ ~(i < header.num_actions)
    /\ pc' = "parse_words"
    /\ i' = 0
    /\ UNCHANGED <<tokvars, tokens, stored, gamevars, err, out, unitvars, pulled, build, hanoivars, reversivars>>

\* parse_words: one verb and one noun for _ in 0..num_words
ParseWordPair ==
    /\ pc = "parse_words"
    /\ i < header.num_words
    /\ LET r == parse_word_pair(tokens)
       IN /\ tokens' = r.rest
          /\ IF r.ok
             THEN /\ verbs' = Append(verbs, r.val[1])
                  /\ nouns' = Append(nouns, r.val[2])
                  /\ i' = i + 1
                  /\ UNCHANGED <<pc, err>>
             ELSE /\ pc' = "failed"
                  /\ err' = ParseError(r.err)
                  /\ UNCHANGED <<verbs, nouns, i>>
    /\ UNCHANGED <<tokvars, stored, out, unitvars, pulled, build, hanoivars, reversivars, header, actions, rooms, messages, items, footer>>

\* parse_words: Ok((verbs, nouns))
ParseWordPairsEnd ==
    /\ pc = "parse_words"
    /\ ~(i < header.num_words)
    /\ pc' = "parse_rooms"
    /\ i' = 0
    /\ UNCHANGED <<tokvars, tokens, stored, gamevars, err, out, unitvars, pulled, build, hanoivars, reversivars>>

\* parse_rooms: rooms.push(parse_room(stream)?) for _ in 0..num_rooms
ParseRoom ==
    /\ pc = "parse_rooms"
    /\ i < header.num_rooms
    /\ LET r == parse_room(tokens)
       IN /\ tokens' = r.rest
          /\ IF r.ok
             THEN /\ rooms' = Append(rooms, r.val)
                  /\ i' = i + 1
                  /\ UNCHANGED <<pc, err>>
             ELSE /\ pc' = "failed"
                  /\ err' = ParseError(r.err)
                  /\ UNCHANGED <<rooms, i>>
    /\ UNCHANGED <<tokvars, stored, out, unitvars, pulled, build, hanoivars, reversivars, header, actions, verbs, nouns, messages, items, footer>>

\* parse_rooms: Ok(rooms)
ParseRoomsEnd ==
    /\ pc = "parse_rooms"
    /\ ~(i < header.num_rooms)
    /\ pc' = "parse_messages"
    /\ i' = 0
    /\ UNCHANGED <<tokvars, tokens, stored, gamevars, err, out, unitvars, pulled, build, hanoivars, reversivars>>

\* parse_messages: messages.push(_read_str(stream)?) for _ in 0..num_messages
ParseMessage ==
    /\ pc = "parse_messages"
    /\ i < header.num_messages
    /\ LET r == _read_str(tokens)
       IN /\ tokens' = r.rest
          /\ IF r.ok
             THEN /\ messages' = Append(messages, r.val)
                  /\ i' = i + 1
                  /\ UNCHANGED <<pc, err>>
             ELSE /\ pc' = "failed"
                  /\ err' = ParseError(r.err)
                  /\ UNCHANGED <<messages, i>>
    /\ UNCHANGED <<tokvars, stored, out, unitvars, pulled, build, hanoivars, reversivars, header, actions, verbs, nouns, rooms, items, footer>>

\* parse_messages: Ok(messages)
ParseMessagesEnd ==
    /\ pc = "parse_messages"
    /\ ~(i < header.num_messages)
    /\ pc' = "parse_items"
    /\ i' = 0
    /\ UNCHANGED <<tokvars, tokens, stored, gamevars, err, out, unitvars, pulled, build, hanoivars, reversivars>>

\* parse_items: items.push(parse_item(stream)?) for _ in 0..num_items
ParseItem ==
    /\ pc = "parse_items"
    /\ i < header.num_items
    /\ LET r == parse_item(tokens)
       IN /\ tokens' = r.rest
          /\ IF r.ok
             THEN /\ items' = Append(items, r.val)
                  /\ i' = i + 1
                  /\ UNCHANGED <<pc, err>>
             ELSE /\ pc' = "failed"
                  /\ err' = ParseError(r.err)
                  /\ UNCHANGED <<items, i>>
    /\ UNCHANGED <<tokvars, stored, out, unitvars, pulled, build, hanoivars, reversivars, header, actions, verbs, nouns, rooms, messages, footer>>

\* parse_items: Ok(items)
ParseItemsEnd ==
    /\ pc = "parse_items"
    /\ ~(i < header.num_items)
    /\ pc' = "parse_comments"
    /\ i' = 0
    /\ UNCHANGED <<tokvars, tokens, stored, gamevars, err, out, unitvars, pulled, build, hanoivars, reversivars>>

\* parse_comments: one comment string for action in actions
ParseComment ==
    /\ pc = "parse_comments"
    /\ i < Len(actions)
    /\ LET r == parse_comment(tokens, actions[i + 1])
       IN /\ tokens' = r.rest
          /\ IF r.ok
             THEN /\ actions' = [actions EXCEPT ![i + 1] = r.val]
                  /\ i' = i + 1
                  /\ UNCHANGED <<pc, err>>
             ELSE /\ pc' = "failed"
                  /\ err' = ParseError(r.err)
                  /\ UNCHANGED <<actions, i>>
    /\ UNCHANGED <<tokvars, stored, out, unitvars, pulled, build, hanoivars, reversivars, header, verbs, nouns, rooms, messages, items, footer>>

\* parse_comments: Ok(())
ParseCommentsEnd ==
    /\ pc = "parse_comments"
    /\ ~(i < Len(actions))
    /\ pc' = "parse_footer"
    /\ i' = 0
    /\ UNCHANGED <<tokvars, tokens, stored, gamevars, err, out, unitvars, pulled, build, hanoivars, reversivars>>

\* let footer = parse_footer(stream)?; Ok(Game { .. }), which load_game returns
ParseFooter ==
    /\ pc = "parse_footer"
    /\ LET r == parse_footer(tokens)
       IN /\ tokens' = r.rest
          /\ IF r.ok
             THEN /\ footer' = r.val
                  /\ pc' = "loaded"
                  /\ UNCHANGED err
             ELSE /\ pc' = "failed"
                  /\ err' = ParseError(r.err)
                  /\ UNCHANGED footer
    /\ UNCHANGED <<tokvars, stored, out, unitvars, pulled, build, hanoivars, reversivars, header, actions, verbs, nouns, rooms, messages, items>>
    /\ UNCHANGED i

(***************************************************************************)
(* game/writer.rs: write_game on the loaded Game, one section or one loop  *)
(* iteration per step.                                                     *)
(***************************************************************************)
\* write_header(writer, &game.header)?;
WriteHeader ==
    /\ pc = "loaded"
    /\ IF write_header_overflows(header) /\ build = "debug"
       THEN /\ pc' = "panic"
            /\ UNCHANGED out
       ELSE /\ out' = out \o write_header(header)
            /\ pc' = "write_actions"
    /\ i' = 0
    /\ UNCHANGED <<tokvars, tokens, stored, gamevars, err, unitvars, pulled, build, hanoivars, reversivars>>

\* write_actions: write_action(writer, action)? for action in actions; an
\* overflowing i32 expression panics (debug) or wraps (release)
WriteAction ==
    /\ pc = "write_actions"
    /\ i < Len(actions)
    /\ IF write_action_overflows(actions[i + 1])
       THEN /\ pc' = "overflow"
            /\ UNCHANGED <<out, i>>
       ELSE /\ out' = out \o write_action(actions[i + 1])
            /\ i' = i + 1
            /\ UNCHANGED pc
    /\ UNCHANGED <<tokvars, tokens, stored, gamevars, err, unitvars, pulled, build, hanoivars, reversivars>>

WriteActionsEnd ==
    /\ pc = "write_actions"
    /\ i >= Len(actions)
    /\ pc' = "write_words"
    /\ i' = 0
    /\ UNCHANGED <<tokvars, tokens, stored, gamevars, err, out, unitvars, pulled, build, hanoivars, reversivars>>

\* write_words: the i-th verb, then the i-th noun, for i in 0..verbs.len()
\* (verbs.len() == nouns.len() is asserted: parse_words pushes them in pairs)
WriteWordPair ==
    /\ pc = "write_words"
    /\ i < Len(verbs)
    /\ out' = out \o write_word(verbs[i + 1]) \o write_word(nouns[i + 1])
    /\ i' = i + 1
    /\ UNCHANGED <<tokvars, tokens, stored, pc, gamevars, err, unitvars, pulled, build, hanoivars, reversivars>>

WriteWordPairsEnd ==
    /\ pc = "write_words"
    /\ i >= Len(verbs)
    /\ pc' = "write_rooms"
    /\ i' = 0
    /\ UNCHANGED <<tokvars, tokens, stored, gamevars, err, out, unitvars, pulled, build, hanoivars, reversivars>>

\* write_rooms: write_room(writer, room)? for room in rooms
WriteRoom ==
    /\ pc = "write_rooms"
    /\ i < Len(rooms)
    /\ out' = out \o write_room(rooms[i + 1])
    /\ i' = i + 1
    /\ UNCHANGED <<tokvars, tokens, stored, pc, gamevars, err, unitvars, pulled, build, hanoivars, reversivars>>

WriteRoomsEnd ==
    /\ pc = "write_rooms"
    /\ i >= Len(rooms)
    /\ pc' = "write_messages"
    /\ i' = 0
    /\ UNCHANGED <<tokvars, tokens, stored, gamevars, err, out, unitvars, pulled, build, hanoivars, reversivars>>

\* write_messages: one quoted line for message in messages
WriteMessage ==
    /\ pc = "write_messages"
    /\ i < Len(messages)
    /\ out' = out \o write_message(messages[i + 1])
    /\ i' = i + 1
    /\ UNCHANGED <<tokvars, tokens, stored, pc, gamevars, err, unitvars, pulled, build, hanoivars, reversivars>>

WriteMessagesEnd ==
    /\ pc = "write_messages"
    /\ i >= Len(messages)
    /\ pc' = "write_items"
    /\ i' = 0
    /\ UNCHANGED <<tokvars, tokens, stored, gamevars, err, out, unitvars, pulled, build, hanoivars, reversivars>>

\* write_items: write_item(writer, item)? for item in items
WriteItem ==
    /\ pc = "write_items"
    /\ i < Len(items)
    /\ out' = out \o write_item(items[i + 1])
    /\ i' = i + 1
    /\ UNCHANGED <<tokvars, tokens, stored, pc, gamevars, err, unitvars, pulled, build, hanoivars, reversivars>>

WriteItemsEnd ==
    /\ pc = "write_items"
    /\ i >= Len(items)
    /\ pc' = "write_comments"
    /\ i' = 0
    /\ UNCHANGED <<tokvars, tokens, stored, gamevars, err, out, unitvars, pulled, build, hanoivars, reversivars>>

\* write_comments: one quoted line for action in actions
WriteComment ==
    /\ pc = "write_comments"
    /\ i < Len(actions)
    /\ out' = out \o write_comment(actions[i + 1])
    /\ i' = i + 1
    /\ UNCHANGED <<tokvars, tokens, stored, pc, gamevars, err, unitvars, pulled, build, hanoivars, reversivars>>

WriteCommentsEnd ==
    /\ pc = "write_comments"
    /\ i >= Len(actions)
    /\ pc' = "write_footer"
    /\ i' = 0
    /\ UNCHANGED <<tokvars, tokens, stored, gamevars, err, out, unitvars, pulled, build, hanoivars, reversivars>>

\* write_footer(writer, &game.footer)?; Ok(())
WriteFooter ==
    /\ pc = "write_footer"
    /\ out' = out \o write_footer(footer)
    /\ pc' = "done"
    /\ UNCHANGED <<tokvars, tokens, stored, i, gamevars, err, unitvars, pulled, build, hanoivars, reversivars>>

(***************************************************************************)
(* The game files the model loads.  A file is laid out the way game files  *)
(* are (and write_game writes): a header of 12 integers, then the actions, *)
(* the verb/noun pairs, the rooms, the messages, the items, one comment    *)
(* per action and the footer; an integer as " n " on a line of its own, a  *)
(* string between double quotes on a line of its own with '"' and '\'      *)
(* escaped by '\', an item as its string followed by its location.         *)
(* All entries of a section hold the same values: the base values, with    *)
(* one field varied.                                                       *)
(***************************************************************************)
Sections == {"items", "actions", "words", "rooms", "messages"}

\* the number of entries of each section (the count in the header is one
\* less): k in all, -1 standing for no entries and -2 in the header, or k in
\* one section only
CountProfiles ==
    {[s \in Sections |-> k] : k \in -1..MaxCount}
    \cup {[s \in Sections |-> IF s = t THEN k ELSE 0] : t \in Sections, k \in 1..MaxCount}

Variations ==
    {  [field |-> "none", ival |-> 0, sval |-> <<>>],
       [field |-> "vn", ival |-> 0, sval |-> <<>>],
       [field |-> "vn", ival |-> 22499, sval |-> <<>>],
       [field |-> "vn", ival |-> -151, sval |-> <<>>],
       [field |-> "cond", ival |-> 0, sval |-> <<>>],
       [field |-> "cond", ival |-> 399, sval |-> <<>>],
       [field |-> "cond", ival |-> 19, sval |-> <<>>],
       [field |-> "cond", ival |-> -20, sval |-> <<>>],
       [field |-> "cond", ival |-> -19, sval |-> <<>>],
       [field |-> "act", ival |-> 0, sval |-> <<>>],
       [field |-> "act", ival |-> 22499, sval |-> <<>>],
       [field |-> "act", ival |-> 151, sval |-> <<>>],
       [field |-> "act", ival |-> -1, sval |-> <<>>],
       [field |-> "loc", ival |-> 0, sval |-> <<>>],
       [field |-> "loc", ival |-> -1, sval |-> <<>>],
       [field |-> "verb", ival |-> 0, sval |-> <<"*", "G", "O">>],
       [field |-> "verb", ival |-> 0, sval |-> <<"*">>],
       [field |-> "verb", ival |-> 0, sval |-> <<"*", "*", "A">>],
       [field |-> "verb", ival |-> 0, sval |-> <<>>],
       [field |-> "room", ival |-> 0, sval |-> <<"*", "X">>],
       [field |-> "room", ival |-> 0, sval |-> <<"*">>],
       [field |-> "room", ival |-> 0, sval |-> <<>>],
       [field |-> "msg", ival |-> 0, sval |-> <<>>],
       [field |-> "msg", ival |-> 0, sval |-> <<"a", "\"", "b">>],
       [field |-> "msg", ival |-> 0, sval |-> <<"a", "\\", "b">>],
       [field |-> "msg", ival |-> 0, sval |-> <<"a", "\n", "b">>],
       [field |-> "msg", ival |-> 0, sval |-> <<"*", "M">>],
       [field |-> "item", ival |-> 0, sval |-> <<"*", "L", "A", "M", "P", "/", "L", "A", "M", "P", "/">>],
       [field |-> "item", ival |-> 0, sval |-> <<"*", "G", "E", "M">>],
       [field |-> "item", ival |-> 0, sval |-> <<"A", "/", "B", "/", "C", "/">>],
       [field |-> "item", ival |-> 0, sval |-> <<"/", "/">>],
       [field |-> "item", ival |-> 0, sval |-> <<"A", "/">>],
       [field |-> "item", ival |-> 0, sval |-> <<"A", "\n", "B", "/", "B", "/">>],
       [field |-> "item", ival |-> 0, sval |-> <<"/", "B", "/", "\n">>],
       [field |-> "comment", ival |-> 0, sval |-> <<"G", "O", " ", "N">>],
       [field |-> "comment", ival |-> 0, sval |-> <<"\"">>],
       [field |-> "comments", ival |-> 0, sval |-> <<"G", "O", " ", "N">>],
       [field |-> "comments", ival |-> 1, sval |-> <<"G", "O", " ", "N">>],
       [field |-> "comments", ival |-> 2, sval |-> <<"C">>],
       [field |-> "verb", ival |-> 0, sval |-> <<"N", "O", "R", "T", "H">>],
       [field |-> "crlf", ival |-> 0, sval |-> <<>>],
       [field |-> "vn_str", ival |-> 0, sval |-> <<"S">>],
       [field |-> "cond_str", ival |-> 0, sval |-> <<"S">>],
       [field |-> "verb_int", ival |-> 9, sval |-> <<>>],
       [field |-> "loc_str", ival |-> 0, sval |-> <<"S">>],
       [field |-> "magic_str", ival |-> 0, sval |-> <<"S">>],
       [field |-> "footer", ival |-> 0, sval |-> <<>>],
       [field |-> "footer", ival |-> 2, sval |-> <<>>],
       [field |-> "trailing", ival |-> 99, sval |-> <<"T">>],
       [field |-> "count_max", ival |-> 0, sval |-> <<>>],
       [field |-> "vn", ival |-> MaxI32, sval |-> <<>>],
       [field |-> "vn", ival |-> MinI32, sval |-> <<>>],
       [field |-> "cond", ival |-> MaxI32, sval |-> <<>>],
       [field |-> "cond", ival |-> -2147483640, sval |-> <<>>],
       [field |-> "act", ival |-> MaxI32, sval |-> <<>>],
       [field |-> "act", ival |-> MinI32, sval |-> <<>>] }

IntField(v, field, base) == IF v.field = field THEN v.ival ELSE base

StrField(v, field, base) == IF v.field = field THEN v.sval ELSE base

\* a string as it stands in the file between its quotes
RECURSIVE Escaped(_)
Escaped(s) ==
    IF s = <<>> THEN <<>>
    ELSE (IF Head(s) \in {"\"", "\\"} THEN <<"\\", Head(s)>> ELSE <<Head(s)>>) \o Escaped(Tail(s))

FileInt(n) == <<" ">> \o fmt_i32(n) \o <<" ", "\n">>

FileStr(s) == <<"\"">> \o Escaped(s) \o <<"\"", "\n">>

FileItem(s, n) == <<"\"">> \o Escaped(s) \o <<"\"", " ">> \o fmt_i32(n) \o <<" ", "\n">>

RECURSIVE Repeat(_, _)
Repeat(bytes, n) == IF n <= 0 THEN <<>> ELSE bytes \o Repeat(bytes, n - 1)

\* the comment of the k-th action: the same for all, or (field "comments")
\* sval for the actions whose index has the parity ival and none for the
\* others, or (ival 2) sval followed by the digit k
CommentOf(v, k) ==
    IF v.field # "comments" THEN StrField(v, "comment", <<>>)
    ELSE IF v.ival = 2 THEN v.sval \o fmt_i32(k)
    ELSE IF k % 2 = v.ival THEN v.sval
    ELSE <<>>

\* the comment block of a file with n actions, from the k-th comment on
RECURSIVE FileComments(_, _, _)
FileComments(v, k, n) ==
    IF k > n THEN <<>> ELSE FileStr(CommentOf(v, k)) \o FileComments(v, k + 1, n)

\* an integer field, or (field `wrong`) a string where the integer belongs
IntTok(v, field, wrong, base) ==
    IF v.field = wrong THEN FileStr(v.sval) ELSE FileInt(IntField(v, field, base))

\* a string field, or (field `wrong`) an integer where the string belongs
StrTok(v, field, wrong, base) ==
    IF v.field = wrong THEN FileInt(v.ival) ELSE FileStr(StrField(v, field, base))

\* the file with LF after every token; the footer holds its first ival
\* integers only for the field "footer"
LfFile(c, v) ==
    LET cond == IntTok(v, "cond", "cond_str", 21)
        act == FileInt(IntField(v, "act", 7853))
        item == IF v.field = "loc_str"
                THEN FileStr(<<"L">>) \o FileStr(v.sval)
                ELSE FileItem(StrField(v, "item", <<"L">>), IntField(v, "loc", 5))
        foot == <<FileInt(416), FileInt(1), IntTok(v, "magic", "magic_str", 12345)>>
    IN FileInt(7) \o FileInt(IF v.field = "count_max" THEN MaxI32 ELSE c["items"] - 1)
       \o FileInt(c["actions"] - 1)
       \o FileInt(c["words"] - 1) \o FileInt(c["rooms"] - 1) \o FileInt(6)
       \o FileInt(1) \o FileInt(2) \o FileInt(3) \o FileInt(-1)
       \o FileInt(c["messages"] - 1) \o FileInt(4)
       \o Repeat(IntTok(v, "vn", "vn_str", 160) \o Repeat(cond, 5) \o Repeat(act, 2),
                 c["actions"])
       \o Repeat(StrTok(v, "verb", "verb_int", <<"G", "O">>) \o FileStr(<<"N">>), c["words"])
       \o Repeat(FileInt(0) \o FileInt(1) \o FileInt(-1) \o FileInt(2) \o FileInt(3)
                 \o FileInt(10) \o FileStr(StrField(v, "room", <<"X">>)), c["rooms"])
       \o Repeat(FileStr(StrField(v, "msg", <<"M">>)), c["messages"])
       \o Repeat(item, c["items"])
       \o FileComments(v, 1, c["actions"])
       \o Flatten(SubSeq(foot, 1, IF v.field = "footer" THEN v.ival ELSE 3))
       \o (IF v.field = "trailing" THEN FileInt(v.ival) \o FileStr(v.sval) ELSE <<>>)

\* bytes[lo..hi] with CR LF for every LF
RECURSIVE CrlfRange(_, _, _)
CrlfRange(bytes, lo, hi) ==
    IF lo > hi THEN <<>>
    ELSE IF lo = hi THEN (IF bytes[lo] = "\n" THEN <<"\r", "\n">> ELSE <<bytes[lo]>>)
    ELSE CrlfRange(bytes, lo, (lo + hi) \div 2) \o CrlfRange(bytes, (lo + hi) \div 2 + 1, hi)

Crlf(bytes) == CrlfRange(bytes, 1, Len(bytes))

GameFile(c, v) == IF v.field = "crlf" THEN Crlf(LfFile(c, v)) ELSE LfFile(c, v)

(***************************************************************************)
(* The specification: load_game on a game file, then write_game on the     *)
(* Game it returned (tests/idempotence.rs).                                *)
(***************************************************************************)
NoHeader ==
    [unknown0 |-> 0, num_items |-> 0, num_actions |-> 0, num_words |-> 0,
     num_rooms |-> 0, max_inventory |-> 0, starting_room |-> 0, num_treasures |-> 0,
     word_length |-> 0, light_duration |-> 0, num_messages |-> 0, treasure_room |-> 0]

NoFooter == [version |-> 0, adventure |-> 0, magic |-> 0]

\* no hanoi Board and no reversi Board was made
BoardsIdle ==
    /\ discs = 0
    /\ stacks = <<>>
    /\ squares = <<>>
    /\ scores = <<>>

\* the packing round trips do not run
UnitIdle ==
    /\ num = 0
    /\ decoded = <<>>
    /\ encoded = <<>>
    /\ upc = "idle"

\* load_game has not been called
LoadIdle(bytes, start) ==
    /\ data = bytes
    /\ offset = 0
    /\ state = "Init"
    /\ acc = <<>>
    /\ current_loc = Location(1, 1)
    /\ token_loc = Location(1, 1)
    /\ tokens = <<>>
    /\ stored = <<>>
    /\ pc = start
    /\ i = 0
    /\ header = NoHeader
    /\ actions = <<>>
    /\ verbs = <<>>
    /\ nouns = <<>>
    /\ rooms = <<>>
    /\ messages = <<>>
    /\ items = <<>>
    /\ footer = NoFooter
    /\ err = <<>>
    /\ out = <<>>
    /\ pulled = <<>>

\* an arithmetic overflow panics in a debug build and wraps in a release build
Builds == {"debug", "release"}

Init ==
    /\ \E c \in CountProfiles, v \in Variations : LoadIdle(GameFile(c, v), "tokenize")
    /\ UnitIdle
    /\ build \in Builds
    /\ BoardsIdle

Next ==
    \/ TokenizeStep
    \/ TokenizeEnd
    \/ ParseHeader
    \/ ParseAction
    \/ ParseActionsEnd
    \/ ParseWordPair
    \/ ParseWordPairsEnd
    \/ ParseRoom
    \/ ParseRoomsEnd
    \/ ParseMessage
    \/ ParseMessagesEnd
    \/ ParseItem
    \/ ParseItemsEnd
    \/ ParseComment
    \/ ParseCommentsEnd
    \/ ParseFooter
    \/ WriteHeader
    \/ WriteAction
    \/ WriteActionsEnd
    \/ WriteWordPair
    \/ WriteWordPairsEnd
    \/ WriteRoom
    \/ WriteRoomsEnd
    \/ WriteMessage
    \/ WriteMessagesEnd
    \/ WriteItem
    \/ WriteItemsEnd
    \/ WriteComment
    \/ WriteCommentsEnd
    \/ WriteFooter

Spec == Init /\ [][Next]_vars

(***************************************************************************)
(* Where the sections lie: the number of iterations of `for _ in 0..n`,    *)
(* and the number of tokens read (and of writes made) before a section.    *)
(***************************************************************************)
Iterations(n) == IF n > 0 THEN n ELSE 0

HeaderDecoded ==
    /\ pc \notin {"tokenize", "parse_header", "panic"}
    /\ Len(stored) >= 12
    /\ \A k \in 1..12 : stored[k].kind = "Int"

WordsStart == 12 + 8 * Iterations(header.num_actions)

RoomsStart == WordsStart + 2 * Iterations(header.num_words)

MessagesStart == RoomsStart + 7 * Iterations(header.num_rooms)

ItemsStart == MessagesStart + Iterations(header.num_messages)

(***************************************************************************)
(* Claims about load_game followed by write_game.                          *)
(***************************************************************************)
\* C1 (as claimed): when a game file has been tokenized, decoded and written
\* back, the bytes written are exactly the bytes of the file.
C1_RoundTripIdentity == pc = "done" => Flatten(out) = data

\* m is n plus one
C2_PlusOne(n, m) == n < MaxI32 /\ m = n + 1

\* C2: the decoded header holds each of the five on-disk counts plus one and
\* the other seven fields unchanged, and write_header writes back the twelve
\* integers that were read: each count minus one, the other fields unchanged.
C2_HeaderCountAdjustment ==
    /\ HeaderDecoded =>
          /\ C2_PlusOne(stored[2].val, header.num_items)
          /\ C2_PlusOne(stored[3].val, header.num_actions)
          /\ C2_PlusOne(stored[4].val, header.num_words)
          /\ C2_PlusOne(stored[5].val, header.num_rooms)
          /\ C2_PlusOne(stored[11].val, header.num_messages)
          /\ header.unknown0 = stored[1].val
          /\ header.max_inventory = stored[6].val
          /\ header.starting_room = stored[7].val
          /\ header.num_treasures = stored[8].val
          /\ header.word_length = stored[9].val
          /\ header.light_duration = stored[10].val
          /\ header.treasure_room = stored[12].val
    /\ Len(out) >= 12 =>
          \A k \in 1..12 : out[k] = <<" ">> \o fmt_i32(stored[k].val) \o <<" ", "\n">>

\* what C9 says a stored string decodes to
C9_Expected(s) ==
    IF s # <<>> /\ Head(s) = "*" THEN <<SubSeq(s, 2, Len(s)), TRUE>> ELSE <<s, FALSE>>

\* C9: every verb, noun and room description decoded so far is its stored
\* string without one leading '*' and flagged, or the stored string itself and
\* not flagged; and every one written so far is written as the stored string
\* between quotes.
C9_StarMarker ==
    HeaderDecoded =>
       /\ \A j \in 1..Len(verbs) :
             <<verbs[j].word, verbs[j].is_synonym>> = C9_Expected(stored[WordsStart + 2 * j - 1].val)
       /\ \A j \in 1..Len(nouns) :
             <<nouns[j].word, nouns[j].is_synonym>> = C9_Expected(stored[WordsStart + 2 * j].val)
       /\ \A j \in 1..Len(rooms) :
             <<rooms[j].description, rooms[j].is_literal>> = C9_Expected(stored[RoomsStart + 7 * j].val)
       /\ \A k \in (WordsStart + 1)..RoomsStart :
             k <= Len(out) => out[k] = <<"\"">> \o stored[k].val \o <<"\"", "\n">>
       /\ \A j \in 1..Len(rooms) :
             RoomsStart + 7 * j <= Len(out) =>
                out[RoomsStart + 7 * j] = <<"\"">> \o stored[RoomsStart + 7 * j].val \o <<"\"", "\n">>

\* C9 witness: the verb stored as "**A" was decoded to the synonym "*A", the
\* noun stored as "N" to the plain word "N", and both were written back.
C9_Witness ==
    /\ pc = "done"
    /\ Len(verbs) >= 1
    /\ stored[WordsStart + 1].val = <<"*", "*", "A">>
    /\ verbs[1] = [word |-> <<"*", "A">>, is_synonym |-> TRUE]
    /\ nouns[1] = [word |-> <<"N">>, is_synonym |-> FALSE]
    /\ out[WordsStart + 1] = <<"\"", "*", "*", "A", "\"", "\n">>
    /\ out[WordsStart + 2] = <<"\"", "N", "\"", "\n">>

\* the stored description ends with a '/name/' suffix: its last character is
\* '/' and an earlier '/' opens the suffix
C10_HasSuffix(s) == Len(s) >= 2 /\ s[Len(s)] = "/" /\ \E k \in 1..(Len(s) - 1) : s[k] = "/"

\* the position of the '/' that opens the suffix
C10_SuffixAt(s) == CHOOSE k \in 1..(Len(s) - 1) : s[k] = "/" /\ \A m \in (k + 1)..(Len(s) - 1) : s[m] # "/"

\* C10 (as claimed): every item decoded so far is a treasure exactly when its
\* stored description starts with '*'; when the stored description ends with
\* '/name/' its autograb is name and its description the stored one without
\* that suffix, otherwise it has no autograb and the stored description; its
\* location is the integer that follows; and write_item writes the stored
\* description back.
C10_ItemExtraction ==
    HeaderDecoded =>
       \A j \in 1..Len(items) :
          LET s == stored[ItemsStart + 2 * j - 1].val
              item == items[j]
          IN /\ item.is_treasure = (s # <<>> /\ Head(s) = "*")
             /\ item.location = stored[ItemsStart + 2 * j].val
             /\ IF C10_HasSuffix(s)
                THEN /\ item.autograb = Some(SubSeq(s, C10_SuffixAt(s) + 1, Len(s) - 1))
                     /\ item.description = SubSeq(s, 1, C10_SuffixAt(s) - 1)
                ELSE /\ item.autograb = None
                     /\ item.description = s
             /\ ItemsStart + j <= Len(out) =>
                   out[ItemsStart + j] = <<"\"">> \o s \o <<"\"", " ">>
                                         \o fmt_i32(item.location) \o <<" ", "\n">>

\* the number of tokens read before the comment block
CommentsStart == ItemsStart + 2 * Iterations(header.num_items)

\* the number of writes made before write_comments
CommentsOut == ItemsStart + Iterations(header.num_items)

\* the number of actions parse_comments has handled
C11_CommentsRead ==
    IF pc = "parse_comments" THEN i
    ELSE IF pc \in {"parse_footer", "loaded", "write_header", "write_actions", "write_words",
                    "write_rooms", "write_messages", "write_items", "write_comments",
                    "write_footer", "overflow", "done"}
    THEN Len(actions)
    ELSE 0

\* C11: the k-th action handled by parse_comments has no comment when the k-th
\* string of the comment block is empty and has that string as its comment
\* otherwise; the k-th write of write_comments is the k-th action's comment
\* between quotes, two quotes alone for an absent comment; and write_comments
\* makes one write per action.
C11_CommentByPosition ==
    HeaderDecoded =>
       /\ \A k \in 1..C11_CommentsRead :
             LET s == stored[CommentsStart + k].val
             IN /\ s = <<>> => actions[k].comment = None
                /\ s # <<>> => actions[k].comment = Some(s)
       /\ \A k \in 1..Len(actions) :
             CommentsOut + k <= Len(out) =>
                out[CommentsOut + k] =
                   <<"\"">> \o (IF actions[k].comment.some THEN actions[k].comment.val ELSE <<>>)
                   \o <<"\"", "\n">>
       /\ pc = "write_footer" => Len(out) = CommentsOut + Len(actions)
       /\ pc = "done" => Len(out) = CommentsOut + Len(actions) + 3

\* C11 witness: of two actions the first got the comment "GO N" and the second,
\* whose stored comment is empty, none; both were written, in that order.
C11_Witness ==
    /\ pc = "done"
    /\ Len(actions) = 2
    /\ stored[CommentsStart + 1].val = <<"G", "O", " ", "N">>
    /\ stored[CommentsStart + 2].val = <<>>
    /\ actions[1].comment = Some(<<"G", "O", " ", "N">>)
    /\ actions[2].comment = None
    /\ out[CommentsOut + 1] = <<"\"", "G", "O", " ", "N", "\"", "\n">>
    /\ out[CommentsOut + 2] = <<"\"", "\"", "\n">>

\* the number of tokens parse_game has pulled
Pulled == Len(stored) - Len(tokens)

\* n copies of a sequence, none for n <= 0
RECURSIVE C21_Times(_, _)
C21_Times(seq, n) == IF n <= 0 THEN <<>> ELSE seq \o C21_Times(seq, n - 1)

\* the kinds of the tokens of a game file, in the order C21 gives, the counts
\* taken from the decoded header
C21_Layout ==
    LET I == <<"Int">>
        S == <<"Str">>
    IN C21_Times(I, 12)
       \o C21_Times(C21_Times(I, 8), header.num_actions)
       \o C21_Times(S \o S, header.num_words)
       \o C21_Times(C21_Times(I, 6) \o S, header.num_rooms)
       \o C21_Times(S, header.num_messages)
       \o C21_Times(S \o I, header.num_items)
       \o C21_Times(S, header.num_actions)
       \o C21_Times(I, 3)

\* the number of tokens C21 places before iteration j of section p
C21_PositionAt(p, j) ==
    CASE p = "actions" -> 12 + 8 * j
      [] p = "words" -> 12 + 8 * Iterations(header.num_actions) + 2 * j
      [] p = "rooms" ->
            12 + 8 * Iterations(header.num_actions) + 2 * Iterations(header.num_words) + 7 * j
      [] p = "messages" ->
            Len(C21_Layout) - 3 - Iterations(header.num_actions)
            - 2 * Iterations(header.num_items) - Iterations(header.num_messages) + j
      [] p = "items" ->
            Len(C21_Layout) - 3 - Iterations(header.num_actions)
            - 2 * Iterations(header.num_items) + 2 * j
      [] p = "comments" -> Len(C21_Layout) - 3 - Iterations(header.num_actions) + j
      [] p = "footer" -> Len(C21_Layout) - 3
      [] OTHER -> Len(C21_Layout)

\* the number of tokens C21 places before the point parse_game has reached
C21_Position ==
    CASE pc = "parse_actions" -> C21_PositionAt("actions", i)
      [] pc = "parse_words" -> C21_PositionAt("words", i)
      [] pc = "parse_rooms" -> C21_PositionAt("rooms", i)
      [] pc = "parse_messages" -> C21_PositionAt("messages", i)
      [] pc = "parse_items" -> C21_PositionAt("items", i)
      [] pc = "parse_comments" -> C21_PositionAt("comments", i)
      [] pc = "parse_footer" -> C21_PositionAt("footer", 0)
      [] OTHER -> C21_PositionAt("end", 0)

\* C21: once the header is decoded and as long as nothing failed, parse_game
\* has pulled exactly the tokens that come before the point it has reached,
\* each of the kind the layout gives, and left the others in the stream; and
\* on a file whose tokens have the kinds of the layout no pull fails (the
\* only failure there is a rejected condition value).
C21_PullOrder ==
    HeaderDecoded =>
       /\ pc # "failed" =>
             /\ Pulled = C21_Position
             /\ \A k \in 1..Pulled : stored[k].kind = C21_Layout[k]
             /\ tokens = SubSeq(stored, Pulled + 1, Len(stored))
       /\ (/\ pc = "failed"
           /\ Len(stored) >= Len(C21_Layout)
           /\ \A k \in 1..Len(C21_Layout) : stored[k].kind = C21_Layout[k]) =>
             err.err.msg.text = "Invalid condition"

\* C21 witness: a file with two items and nothing else was decoded: twelve
\* integers, a string and an integer twice, three integers.
C21_Witness ==
    /\ pc = "loaded"
    /\ Len(items) = 2
    /\ Len(actions) = 0 /\ Len(verbs) = 0 /\ Len(rooms) = 0 /\ Len(messages) = 0
    /\ Pulled = 19
    /\ [k \in 13..16 |-> stored[k].kind] = [k \in 13..16 |-> IF k % 2 = 1 THEN "Str" ELSE "Int"]
    /\ tokens = <<>>

\* load_game returned the error of parse_game
C22_ParseFailed == pc = "failed" /\ err # <<>> /\ err.kind = "ParseError"

\* the pull that failed is the last one made: the token pulled last is the
\* one the error is about, or the stream was empty when the pull was made
C22_LastPullFailed ==
    CASE err.err.msg.text = "Unexpected end of stream" -> tokens = <<>>
      [] err.err.msg.text = "Invalid condition" ->
            /\ Pulled >= 1
            /\ stored[Pulled].kind = "Int"
            /\ CondRem(stored[Pulled].val) \notin 0..19
      [] err.err.msg.text = "Expected an integer, found a string" ->
            /\ Pulled >= 1
            /\ stored[Pulled].kind = "Str"
            /\ err.err.msg.prefix = <<stored[Pulled].loc.line, stored[Pulled].loc.col>>
      [] err.err.msg.text = "Expected a string, found an integer" ->
            /\ Pulled >= 1
            /\ stored[Pulled].kind = "Int"
            /\ err.err.msg.prefix = <<stored[Pulled].loc.line, stored[Pulled].loc.col>>
      [] OTHER -> FALSE

\* C22: when a pull or a decoding fails, load_game returns an error and no
\* Game (nothing is there for write_game to write), the failing pull is the
\* last pull made and the tokens behind it stay in the stream, nothing
\* happens after the failure, and a load that went through has no error.
C22_FailureStops ==
    /\ [](C22_ParseFailed =>
             /\ footer = NoFooter
             /\ out = <<>>
             /\ Pulled \in 0..Len(stored)
             /\ tokens = SubSeq(stored, Pulled + 1, Len(stored))
             /\ C22_LastPullFailed)
    /\ [](pc \notin {"tokenize", "failed"} => err = <<>>)
    /\ [][pc # "failed"]_vars

\* C22 witness: the first condition of the first action was a string: the
\* load failed on the fourteenth pull with tokens left in the stream.
C22_Witness ==
    /\ C22_ParseFailed
    /\ err.err.msg.text = "Expected an integer, found a string"
    /\ Pulled = 14
    /\ tokens # <<>>
    /\ actions = <<>>

\* C23: the ParseError load_game returns carries a line and a column, and
\* when a token was the offender (one of the wrong type, or a condition
\* value that was rejected) they are the line and column the tokenizer
\* recorded for that token, the last one pulled.
C23_ErrorLocation ==
    C22_ParseFailed =>
       /\ err.err.msg.prefix # <<>>
       /\ err.err.msg.text # "Unexpected end of stream" =>
             /\ Pulled >= 1
             /\ err.err.msg.prefix = <<stored[Pulled].loc.line, stored[Pulled].loc.col>>

\* C24: in the Game load_game returns every collection has as many elements
\* as the decoded header says, whatever counts the file's header holds.
C24_LengthsMatchHeader ==
    pc = "loaded" =>
       /\ Len(actions) = header.num_actions
       /\ Len(verbs) = header.num_words
       /\ Len(nouns) = header.num_words
       /\ Len(rooms) = header.num_rooms
       /\ Len(messages) = header.num_messages
       /\ Len(items) = header.num_items

\* the fields a write holds, by their kinds: an integer between spaces, a
\* string between double quotes, or a string followed by an integer
C25_WriteKinds(w) ==
    IF Head(w) = " " THEN <<"Int">>
    ELSE IF w[Len(w) - 1] = "\"" THEN <<"Str">>
    ELSE <<"Str", "Int">>

RECURSIVE C25_Kinds(_)
C25_Kinds(ws) == IF ws = <<>> THEN <<>> ELSE C25_WriteKinds(Head(ws)) \o C25_Kinds(Tail(ws))

\* the number of fields C21 places before the point write_game has reached
C25_Position ==
    CASE pc = "loaded" -> 0
      [] pc \in {"write_actions", "overflow"} -> C21_PositionAt("actions", i)
      [] pc = "write_words" -> C21_PositionAt("words", i)
      [] pc = "write_rooms" -> C21_PositionAt("rooms", i)
      [] pc = "write_messages" -> C21_PositionAt("messages", i)
      [] pc = "write_items" -> C21_PositionAt("items", i)
      [] pc = "write_comments" -> C21_PositionAt("comments", i)
      [] pc = "write_footer" -> C21_PositionAt("footer", 0)
      [] OTHER -> C21_PositionAt("end", 0)

\* C25: at every point of write_game the fields written so far are, in
\* number, kind and order, the fields parse_game pulled up to the same point
\* of the same section (so each action has given 8 integers), and when
\* write_game returns they are all the fields parse_game pulled.
C25_SameFields ==
    pc \in {"loaded", "write_actions", "overflow", "write_words", "write_rooms", "write_messages",
            "write_items", "write_comments", "write_footer", "done"} =>
       LET kinds == C25_Kinds(out)
       IN /\ Len(kinds) = C25_Position
          /\ \A k \in 1..Len(kinds) : kinds[k] = stored[k].kind
          /\ pc = "write_words" =>
                \A a \in 1..Len(actions) : \A k \in 1..8 : Head(out[12 + 8 * (a - 1) + k]) = " "
          /\ pc = "done" => Len(kinds) = Pulled

\* C25 witness: a Game of two actions whose action pairs are 0 was written:
\* 12 + 2 * 8 + 2 + 3 writes.
C25_Witness ==
    /\ pc = "done"
    /\ Len(actions) = 2
    /\ \A a \in 1..2 : \A k \in 1..4 : actions[a].actions[k].raw = 0
    /\ Len(items) = 0 /\ Len(verbs) = 0
    /\ Len(out) = 33

\* a decimal integer: digits, with or without a minus sign before them
C26_IsNumeral(b) ==
    /\ b # <<>>
    /\ b[1] = "-" \/ is_ascii_digit(b[1])
    /\ b[1] = "-" => Len(b) >= 2
    /\ \A k \in 2..Len(b) : is_ascii_digit(b[k])

\* one space, an integer, one space, the end of the line
C26_IsIntLine(w) ==
    /\ Len(w) >= 4
    /\ w[1] = " " /\ w[Len(w) - 1] = " " /\ w[Len(w)] = "\n"
    /\ C26_IsNumeral(SubSeq(w, 2, Len(w) - 2))

\* a double quote, the text, a double quote, the end of the line
C26_IsQuotedLine(w, text) == w = <<"\"">> \o text \o <<"\"", "\n">>

\* a double quote, the text, a double quote, then the location as an integer
\* is written, on the same line
C26_IsItemLine(w, text) ==
    /\ Len(w) >= Len(text) + 6
    /\ SubSeq(w, 1, Len(text) + 2) = <<"\"">> \o text \o <<"\"">>
    /\ C26_IsIntLine(SubSeq(w, Len(text) + 3, Len(w)))

\* the text of a field as the file holds it: the marker and the autograb
\* word that parse_game split off are part of it
C26_WordText(word) == IF word.is_synonym THEN <<"*">> \o word.word ELSE word.word

C26_RoomText(room) == IF room.is_literal THEN <<"*">> \o room.description ELSE room.description

C26_ItemText(item) ==
    IF item.autograb.some
    THEN item.description \o <<"/">> \o item.autograb.val \o <<"/">>
    ELSE item.description

C26_CommentText(action) == IF action.comment.some THEN action.comment.val ELSE <<>>

\* the k-th write of write_game has the form of the field it holds
C26_WellFormed(k) ==
    LET w == out[k]
        a == 12 + 8 * Len(actions)
        v == a + 2 * Len(verbs)
        r == v + 7 * Len(rooms)
        m == r + Len(messages)
        t == m + Len(items)
        c == t + Len(actions)
    IN CASE k <= a -> C26_IsIntLine(w)
         [] k > a /\ k <= v ->
               C26_IsQuotedLine(w, C26_WordText(IF (k - a) % 2 = 1
                                                THEN verbs[(k - a + 1) \div 2]
                                                ELSE nouns[(k - a) \div 2]))
         [] k > v /\ k <= r ->
               IF (k - v) % 7 = 0
               THEN C26_IsQuotedLine(w, C26_RoomText(rooms[(k - v) \div 7]))
               ELSE C26_IsIntLine(w)
         [] k > r /\ k <= m -> C26_IsQuotedLine(w, messages[k - r])
         [] k > m /\ k <= t -> C26_IsItemLine(w, C26_ItemText(items[k - m]))
         [] k > t /\ k <= c -> C26_IsQuotedLine(w, C26_CommentText(actions[k - t]))
         [] OTHER -> C26_IsIntLine(w)

\* C26: every integer write_game has written stands between exactly one
\* space and one space, every string field between two double quotes, and an
\* item is its quoted description followed by its location on the same line.
C26_OutputFormat == \A k \in 1..Len(out) : C26_WellFormed(k)

\* C26 witness: a Game with two entries in every section was written; its
\* last write is the footer's magic number between two spaces.
C26_Witness ==
    /\ pc = "done"
    /\ Len(actions) = 2 /\ Len(verbs) = 2 /\ Len(rooms) = 2 /\ Len(messages) = 2 /\ Len(items) = 2
    /\ Len(out) = 12 + 16 + 4 + 14 + 2 + 2 + 2 + 3
    /\ out[Len(out)] = <<" ", "1", "2", "3", "4", "5", " ", "\n">>
    /\ out[2] = <<" ", "1", " ", "\n">>

\* the lines of the file end in CR LF
C27_IsCrlfFile(bytes) ==
    /\ \E k \in 1..Len(bytes) : bytes[k] = "\n"
    /\ \A k \in 1..Len(bytes) : bytes[k] = "\n" => (k >= 2 /\ bytes[k - 1] = "\r")

\* the write ends its line with CR LF
C27_EndsWithCrlf(w) == Len(w) >= 2 /\ w[Len(w) - 1] = "\r" /\ w[Len(w)] = "\n"

\* C27: the lines write_game wrote end the way the lines of the file that was
\* read end: in CR LF for a file whose lines end in CR LF, in LF alone for
\* the others.
C27_LineTerminator ==
    pc = "done" =>
       \A k \in 1..Len(out) :
          /\ out[k][Len(out[k])] = "\n"
          /\ C27_EndsWithCrlf(out[k]) <=> C27_IsCrlfFile(data)

\* C28: no verb and no noun that parse_words decoded has more characters
\* than the header's word length.
C28_WordsTruncated ==
    HeaderDecoded =>
       /\ \A k \in 1..Len(verbs) : Len(verbs[k].word) <= header.word_length
       /\ \A k \in 1..Len(nouns) : Len(nouns[k].word) <= header.word_length

\* two tokens hold the same value: both integers or both strings, and equal
C29_SameValue(a, b) == a.kind = b.kind /\ a.val = b.val

\* C29: the bytes write_game wrote tokenize, and to as many tokens as the
\* Game was decoded from, each with the value of the token parse_game pulled
\* at the same place.
C29_OutputRereads ==
    pc = "done" =>
       LET again == StreamNew(out)
       IN /\ ~again.failed
          /\ Len(again.tokens) = Pulled
          /\ \A k \in 1..Pulled : C29_SameValue(again.tokens[k], stored[k])

\* C32: once parse_game has returned a Game it has pulled the fields the
\* header announces, the third footer integer being the last: the tokens
\* behind it are still in the stream, in order, no error was returned for
\* them, write_game does not touch them, and when the file holds exactly the
\* announced fields the stream is done().
C32_StopsAfterFooter ==
    (pc \notin {"tokenize", "failed"} /\ footer # NoFooter) =>
       /\ Pulled = Len(C21_Layout)
       /\ tokens = SubSeq(stored, Pulled + 1, Len(stored))
       /\ err = <<>>
       /\ Len(stored) = Len(C21_Layout) => done(tokens)

\* C32 witness: a file with the integer 99 and the string T after its footer
\* was loaded: both are still in the stream.
C32_Witness ==
    /\ pc = "loaded"
    /\ footer.magic = 12345
    /\ Len(items) = 2
    /\ Len(tokens) = 2
    /\ tokens[1].kind = "Int" /\ tokens[1].val = 99
    /\ tokens[2].kind = "Str" /\ tokens[2].val = <<"T">>
    /\ ~done(tokens)

\* the i32 expressions write_action evaluates for the actions of the Game
\* stay inside the i32 range
C33_PackingInRange ==
    pc \in {"loaded", "write_actions"} =>
       \A k \in 1..Len(actions) : ~write_action_overflows(actions[k])

\* C33: no arithmetic of the load and of the write leaves the i32 range: the
\* "+ 1" of parse_header on the counts of the file, the "- 1" of write_header
\* on the decoded counts, and the packings of write_action on the decoded
\* actions; so neither run ends in an overflow panic.
C33_NoOverflow ==
    /\ pc \notin {"panic", "overflow"}
    /\ pc = "parse_header" => ~parse_header_overflows(tokens)
    /\ pc = "loaded" => ~write_header_overflows(header)
    /\ C33_PackingInRange

(***************************************************************************)
(* The packing functions on their own: an integer is decoded, and what was *)
(* decoded is encoded again.                                               *)
(***************************************************************************)
\* the stream that holds the integers ns, each followed by white space
RECURSIVE IntStream(_)
IntStream(ns) ==
    IF ns = <<>> THEN <<>> ELSE <<TokenInt(Head(ns), Location(1, 2))>> \o IntStream(Tail(ns))

UnitInit(inputs) ==
    /\ num \in inputs
    /\ decoded = <<>>
    /\ encoded = <<>>
    /\ upc = "decode"
    /\ LoadIdle(<<>>, "idle")
    /\ build = "debug"
    /\ BoardsIdle

loadvars == <<tokvars, tokens, stored, pc, i, gamevars, err, out>>

\* ---- conditions: Condition::from_i32 / parse_condition, Condition::to_i32 /
\* ---- the condition line of write_action
CondInputs == (-BoundCond..BoundCond) \cup {MinI32, MinI32 + 1, MaxI32 - 1, MaxI32}

CondDecode ==
    /\ upc = "decode"
    /\ decoded' = [cond |-> Condition_from_i32(num),
                   parsed |-> parse_condition(IntStream(<<num>>))]
    /\ upc' = "encode"
    /\ UNCHANGED <<loadvars, pulled, build, hanoivars, reversivars, num, encoded>>

CondEncode ==
    /\ upc = "encode"
    /\ encoded' = [to_i32 |-> Condition_to_i32(decoded.cond),
                   written |-> IF decoded.parsed.ok
                               THEN write_condition(decoded.parsed.val)
                               ELSE <<>>]
    /\ upc' = "done"
    /\ UNCHANGED <<loadvars, pulled, build, hanoivars, reversivars, num, decoded>>

SpecCond == UnitInit(CondInputs) /\ [][CondDecode \/ CondEncode]_vars

\* C3 (as claimed): with type in 0..19 and parameter the integers such that
\* num = type + 20 * parameter, decoding num gives the condition of that type
\* with that parameter, and encoding it gives num again.
C3_ConditionPackingLaw ==
    upc = "done" =>
       LET typ == num % 20
           parameter == num \div 20
           c == [variant |-> ConditionVariants[typ + 1], value |-> parameter]
       IN /\ decoded.cond = c
          /\ decoded.parsed.ok
          /\ decoded.parsed.val = c
          /\ encoded.to_i32 = [ovf |-> FALSE, val |-> num]
          /\ encoded.written = <<" ">> \o fmt_i32(num) \o <<" ", "\n">>

\* C4 (as claimed): decoding a condition integer never gives the invalid
\* case: Condition::from_i32 gives no Invalid and parse_condition no error.
C4_NoInvalidCondition ==
    upc \in {"encode", "done"} =>
       /\ decoded.cond.variant # "Invalid"
       /\ decoded.parsed.ok

\* ---- packed pairs: parse_action / write_action on an action whose packed
\* ---- verb/noun and whose two packed sub-action pairs are all num
PairInputs ==
    (-BoundPair..BoundPair)
    \cup {a * 150 + b : a \in {1, 51, 52, 149}, b \in {0, 1, 102, 149}}
    \cup {MinI32, MinI32 + 1, -22500, 22500, MaxI32 - 1, MaxI32}

PairDecode ==
    /\ upc = "decode"
    /\ decoded' = parse_action(IntStream(<<num, 0, 0, 0, 0, 0, num, num>>))
    /\ upc' = "encode"
    /\ UNCHANGED <<loadvars, pulled, build, hanoivars, reversivars, num, encoded>>

PairEncode ==
    /\ upc = "encode"
    /\ encoded' = [ovf |-> write_action_overflows(decoded.val),
                   out |-> write_action(decoded.val)]
    /\ upc' = "done"
    /\ UNCHANGED <<loadvars, pulled, build, hanoivars, reversivars, num, decoded>>

SpecPair == UnitInit(PairInputs) /\ [][PairDecode \/ PairEncode]_vars

\* C5: for a and b in 0..149 the stored integer a * 150 + b decodes to the
\* sub-actions a and b, in this order, and write_action writes the stored
\* integer back for the pair.
C5_ActionPairLaw ==
    \A a \in 0..149 : \A b \in 0..149 :
       (upc = "done" /\ num = a * 150 + b) =>
          /\ decoded.ok
          /\ decoded.val.actions[1] = Generic(a)
          /\ decoded.val.actions[2] = Generic(b)
          /\ decoded.val.actions[3] = Generic(a)
          /\ decoded.val.actions[4] = Generic(b)
          /\ encoded.out[7] = <<" ">> \o fmt_i32(num) \o <<" ", "\n">>
          /\ encoded.out[8] = <<" ">> \o fmt_i32(num) \o <<" ", "\n">>
          /\ Len(encoded.out) = 8

\* C5 witness: 52 * 150 + 102 was decoded to the sub-actions 52 and 102 and
\* written back.
C5_Witness ==
    /\ upc = "done"
    /\ num = 7902
    /\ decoded.val.actions[1] = Generic(52)
    /\ decoded.val.actions[2] = Generic(102)
    /\ encoded.out[7] = <<" ", "7", "9", "0", "2", " ", "\n">>

\* C8: for every stored integer, negative ones included, the decoded verb and
\* noun index satisfy verb_index * 150 + noun_index = num, no i32 expression
\* of write_action overflows, and write_action writes num back.
C8_VerbNounExact ==
    upc = "done" =>
       /\ decoded.ok
       /\ decoded.val.verb_index * 150 + decoded.val.noun_index = num
       /\ ~encoded.ovf
       /\ encoded.out[1] = <<" ">> \o fmt_i32(num) \o <<" ", "\n">>

\* C8 witness: -151 was decoded to verb index -1 and noun index -1 and
\* written back as -151.
C8_Witness ==
    /\ upc = "done"
    /\ num = -151
    /\ decoded.val.verb_index = -1
    /\ decoded.val.noun_index = -1
    /\ ~encoded.ovf
    /\ encoded.out[1] = <<" ", "-", "1", "5", "1", " ", "\n">>

\* ---- sub-action opcodes: ActionType::from_i32, ActionType::to_i32
OpInputs == (-BoundOp..(150 + BoundOp)) \cup {MinI32, MaxI32}

ActionTypeDecode ==
    /\ upc = "decode"
    /\ decoded' = ActionType_from_i32(num)
    /\ upc' = "encode"
    /\ UNCHANGED <<loadvars, pulled, build, hanoivars, reversivars, num, encoded>>

ActionTypeEncode ==
    /\ upc = "encode"
    /\ encoded' = ActionType_to_i32(decoded)
    /\ upc' = "done"
    /\ UNCHANGED <<loadvars, pulled, build, hanoivars, reversivars, num, decoded>>

SpecActionType == UnitInit(OpInputs) /\ [][ActionTypeDecode \/ ActionTypeEncode]_vars

\* C6: ActionType::to_i32(ActionType::from_i32(n)) = n for every n.
C6_ActionTypeRoundTrip == upc = "done" => encoded = num

\* C6 witness: 59 was decoded to the duplicate RemoveItem2 and encoded as 59.
C6_Witness ==
    /\ upc = "done"
    /\ num = 59
    /\ decoded = [variant |-> "RemoveItem", dup |-> TRUE]
    /\ encoded = 59

\* the 38 built-in opcodes: 34 variants without payload, and RemoveItem and
\* DescribeRoom each with and without the duplicate flag
C7_BuiltinOpcodes ==
    {[variant |-> v] : v \in {
       "GetItem", "DropItem", "MovePlayer", "SetDarkness", "ClearDarkness",
       "SetBit", "ClearBit", "Death", "PutItem", "GameOver", "Score",
       "Inventory", "SetBit0", "ClearBit0", "RefillLight", "ClearScreen",
       "SaveGame", "SwapItems", "Continue", "TakeItem", "MoveItemToItem",
       "DecrementCounter", "PrintCounter", "SetCounter", "SwapLocation",
       "SelectCounter", "AddToCounter", "SubFromCounter", "EchoNoun",
       "EchoNounCR", "EchoCR", "SwapLocationN", "Delay", "DrawPicture" }}
    \cup {[variant |-> v, dup |-> d] : v \in {"RemoveItem", "DescribeRoom"}, d \in BOOLEAN}

\* C7: 0 decodes to the no-op, r in 1..51 to the message r - 1, r in 102..150
\* to the message r - 51, r in 52..89 to one of the 38 built-in opcodes, and
\* nothing outside 1..51 and 102..150 to a message.
C7_ActionTypeRanges ==
    upc \in {"encode", "done"} =>
       /\ num = 0 => decoded = [variant |-> "Nothing"]
       /\ num \in 1..51 => decoded = [variant |-> "Message", index |-> num - 1]
       /\ num \in 102..150 => decoded = [variant |-> "Message", index |-> num - 51]
       /\ num \in 52..89 => decoded \in C7_BuiltinOpcodes
       /\ num \notin (1..51) \cup (102..150) => decoded.variant # "Message"

\* C7 witness: 102 was decoded to the message 51.
C7_Witness ==
    /\ upc = "done"
    /\ num = 102
    /\ decoded = [variant |-> "Message", index |-> 51]

\* C30: every Message that from_i32 returns has an index in 0..99, so to_i32
\* encodes it by one of its two range arms (as 1..51 or 102..150) and never by
\* the arm that gives 0 for an index out of range.
C30_MessageIndexInRange ==
    (upc \in {"encode", "done"} /\ decoded.variant = "Message") =>
       /\ decoded.index \in 0..99
       /\ upc = "done" => encoded \in (1..51) \cup (102..150)

\* C30 witness: 150, the largest message opcode, was decoded to the message
\* 99 and encoded as 150.
C30_Witness ==
    /\ upc = "done"
    /\ num = 150
    /\ decoded = [variant |-> "Message", index |-> 99]
    /\ encoded = 150

(***************************************************************************)
(* Stream::new on its own: the bytes are any short sequence over Alphabet  *)
(* or one of the longer TokSamples, and Stream::new returns to its caller. *)
(***************************************************************************)
\* a sign, a digit, a quote, a backslash, two kinds of white space, a letter
Alphabet == {"-", "5", "\"", "\\", " ", "\n", "h"}

ByteSeqs == UNION {[1..n -> Alphabet] : n \in 0..MaxBytes}

\* -5 "hi\"there"
HiThere == <<"-", "5", " ", "\"", "h", "i", "\\", "\"", "t", "h", "e", "r", "e", "\"">>

TokSamples ==
    { HiThere,
      <<"2", "1", "4", "7", "4", "8", "3", "6", "4", "7", " ">>,
      <<"2", "1", "4", "7", "4", "8", "3", "6", "4", "8", " ">>,
      <<"-", "2", "1", "4", "7", "4", "8", "3", "6", "4", "8", "\n">>,
      <<"-", "2", "1", "4", "7", "4", "8", "3", "6", "4", "9", "\n">>,
      <<"9", "9", "9", "9", "9", "9", "9", "9", "9", "9", "9", " ">>,
      <<"0", "0", "0", "1", "2", "\t">>,
      <<"0", "0", "0", "0", "0", "0", "0", "0", "0", "0", "0", "7", "\r">>,
      <<"-", "0", "\f">>,
      <<"1", "2", "\r", "\n", "\"", "a", "\n", "\\", "\\", "b", "\"", "\f", "-", "3", "4", "\t", "\"", "\"", "7">>,
      <<"\n", "\n", " ", "7", "\n", "\"", "\n", "\"", "8", " ">>,
      <<"3", "\"", "x", "\"">>,
      <<"3", "-", "4", " ">>,
      <<"\"", "x", "\"", "y">>,
      <<"\"", "x", "\n", "y">> }

\* Stream::new pushing the token the input ended in, when it has one
StreamNewFlush ==
    /\ pc = "tokenize"
    /\ offset = Len(data)
    /\ LET pending == IF state = "Num" /\ parse_i32(acc).ok
                      THEN <<TokenInt(parse_i32(acc).val, token_loc)>>
                      ELSE IF state = "Quote" THEN <<TokenStr(acc, token_loc)>>
                      ELSE <<>>
       IN /\ tokens' = tokens \o pending
          /\ stored' = tokens \o pending
    /\ pc' = "stream"
    /\ UNCHANGED <<tokvars, i, gamevars, err, out, unitvars, pulled, build, hanoivars, reversivars>>

\* the end of the input: Ok(Stream { tokens }), whatever the state; the caller
\* holds the Stream
StreamNewOk ==
    /\ pc = "tokenize"
    /\ offset = Len(data)
    /\ stored' = tokens
    /\ pc' = "stream"
    /\ UNCHANGED <<tokvars, tokens, i, gamevars, err, out, unitvars, pulled, build, hanoivars, reversivars>>

InitTok ==
    /\ \E bytes \in ByteSeqs \cup TokSamples : LoadIdle(bytes, "tokenize")
    /\ UnitIdle
    /\ build = "debug"
    /\ BoardsIdle

NextTok ==
    \/ TokenizeStep
    \/ StreamNewOk

SpecTok == InitTok /\ [][NextTok]_vars

\* what C12 says of the bytes that follow an opening quote: the value of the
\* string, the number of bytes up to and including its closing quote, and
\* whether there is a closing quote at all
RECURSIVE C12_Quoted(_)
C12_Quoted(bytes) ==
    IF bytes = <<>> THEN [closed |-> FALSE, val |-> <<>>, used |-> 0]
    ELSE IF Head(bytes) = "\"" THEN [closed |-> TRUE, val |-> <<>>, used |-> 1]
    ELSE IF Head(bytes) = "\\"
    THEN (IF Len(bytes) = 1 THEN [closed |-> FALSE, val |-> <<>>, used |-> 1]
          ELSE LET r == C12_Quoted(SubSeq(bytes, 3, Len(bytes)))
               IN [closed |-> r.closed, val |-> <<bytes[2]>> \o r.val, used |-> r.used + 2])
    ELSE LET r == C12_Quoted(Tail(bytes))
         IN [closed |-> r.closed, val |-> <<Head(bytes)>> \o r.val, used |-> r.used + 1]

\* the values of the closed strings of an input, in order
RECURSIVE C12_Texts(_)
C12_Texts(bytes) ==
    IF \A k \in 1..Len(bytes) : bytes[k] # "\"" THEN <<>>
    ELSE LET open == CHOOSE k \in 1..Len(bytes) :
                        bytes[k] = "\"" /\ \A m \in 1..(k - 1) : bytes[m] # "\""
             r == C12_Quoted(SubSeq(bytes, open + 1, Len(bytes)))
         IN IF ~r.closed THEN <<>>
            ELSE <<r.val>> \o C12_Texts(SubSeq(bytes, open + r.used + 1, Len(bytes)))

\* the kind and value of every token, in order
C12_KindsAndValues(ts) == [k \in 1..Len(ts) |-> <<ts[k].kind, ts[k].val>>]

\* C12: when Stream::new has returned a Stream, the values of its Text tokens
\* are, in order, the bytes between each opening quote and its closing quote
\* with every backslash removed and the byte after it kept; and the input
\* -5 "hi\"there" gives Integer(-5), Text(hi"there).
C12_TextValue ==
    pc = "stream" =>
       /\ LET texts == SelectSeq(stored, LAMBDA t : t.kind = "Str")
          IN [k \in 1..Len(texts) |-> texts[k].val] = C12_Texts(data)
       /\ data = HiThere =>
             C12_KindsAndValues(stored) =
                << <<"Int", -5>>, <<"Str", <<"h", "i", "\"", "t", "h", "e", "r", "e">> >> >>

\* C12 witness: -5 "hi\"there" was tokenized, the escaped quote inside the
\* string not ending it.
C12_Witness ==
    /\ pc = "stream"
    /\ data = HiThere
    /\ Len(stored) = 2
    /\ stored[2].kind = "Str"
    /\ stored[2].val = <<"h", "i", "\"", "t", "h", "e", "r", "e">>

\* the 1-based line and column of the k-th byte of the input: a line feed
\* starts a new line whose first byte is column 1
C15_LineCol(k) ==
    LET feeds == {m \in 1..(k - 1) : data[m] = "\n"}
        last == IF feeds = {} THEN 0 ELSE CHOOSE m \in feeds : \A n \in feeds : n <= m
    IN Location(1 + Cardinality(feeds), k - last)

\* C13 (as claimed): Stream::new never returns a Stream for an input that ends
\* inside a quoted string, and the TokenError it returns for a byte it does
\* not accept carries the line and column of that byte.
C13_ErrorSurfacing ==
    /\ pc = "stream" => state \notin {"Quote", "Escape"}
    /\ (pc = "failed" /\ err.err.msg[1] \in {"Unexpected character", "Unexpected character in integer"}) =>
          /\ stored = <<>>
          /\ err.err.loc = C15_LineCol(offset)

\* C14: when the input ends outside Init, Stream::new returns Ok; the Stream
\* holds the tokens pushed before the unfinished token and no token for the
\* unfinished one.
C14_UnfinishedTokenDropped ==
    (pc = "stream" /\ state # "Init") =>
       /\ err = <<>>
       /\ stored = tokens
       /\ \A k \in 1..Len(stored) : stored[k].loc # token_loc
       /\ Len(SelectSeq(stored, LAMBDA t : t.kind = "Str")) = Len(C12_Texts(data))

\* C14 witness: the input "5 5" ended in Num and the Stream holds the first
\* integer only.
C14_Witness ==
    /\ pc = "stream"
    /\ data = <<"5", " ", "5">>
    /\ state = "Num"
    /\ acc = <<"5">>
    /\ C12_KindsAndValues(stored) = << <<"Int", 5>> >>

\* C15 (as claimed): the location recorded when a token begins is the line
\* and column of the byte that begins it, and a token pushed carries the
\* location recorded when it began.
C15_TokenLocation ==
    [][(pc = "tokenize" /\ offset < Len(data) /\ pc' = "tokenize") =>
          /\ (state = "Init" /\ state' # "Init") => token_loc' = C15_LineCol(offset + 1)
          /\ Len(tokens') > Len(tokens) => tokens'[Len(tokens')].loc = token_loc']_vars

\* the bytes C16 says a state accepts
C16_Allowed(st, ch) ==
    CASE st = "Init" -> is_ascii_whitespace(ch) \/ is_ascii_digit(ch) \/ ch \in {"-", "\""}
      [] st = "Sign" -> is_ascii_digit(ch)
      [] st = "Num" -> is_ascii_whitespace(ch) \/ is_ascii_digit(ch)
      [] OTHER -> TRUE

\* C16: a byte its state does not accept makes Stream::new return a
\* TokenError at once, with no Stream; a byte its state accepts does not,
\* unless it ends an integer literal (C17).
C16_FirstBadByteFails ==
    [][(pc = "tokenize" /\ offset < Len(data)) =>
          LET ch == data[offset + 1]
          IN /\ ~C16_Allowed(state, ch) =>
                   /\ pc' = "failed"
                   /\ err'.kind = "TokenError"
                   /\ stored' = <<>>
             /\ (C16_Allowed(state, ch) /\ ~(state = "Num" /\ is_ascii_whitespace(ch))) =>
                   pc' = "tokenize"]_vars

\* C16 witness: a lone '-' followed by a blank was refused at the blank.
C16_Witness ==
    /\ pc = "failed"
    /\ data = <<"-", " ">>
    /\ state = "Sign"
    /\ offset = 2
    /\ err.kind = "TokenError"

\* the digits of a literal without its leading zeros (one digit at least)
RECURSIVE C17_Significant(_)
C17_Significant(ds) ==
    IF Len(ds) > 1 /\ Head(ds) = "0" THEN C17_Significant(Tail(ds)) ELSE ds

\* ds <= limit for two digit strings of the same length
RECURSIVE C17_AtMost(_, _)
C17_AtMost(ds, limit) ==
    IF ds = <<>> THEN TRUE
    ELSE IF DigitVal(Head(ds)) # DigitVal(Head(limit)) THEN DigitVal(Head(ds)) < DigitVal(Head(limit))
    ELSE C17_AtMost(Tail(ds), Tail(limit))

\* the literal lies in -2^31..2^31-1
C17_Fits(lit) ==
    LET neg == Head(lit) = "-"
        ds == C17_Significant(IF neg THEN Tail(lit) ELSE lit)
    IN \/ Len(ds) < 10
       \/ /\ Len(ds) = 10
          /\ C17_AtMost(ds, IF neg THEN <<"2", "1", "4", "7", "4", "8", "3", "6", "4", "8">>
                                   ELSE <<"2", "1", "4", "7", "4", "8", "3", "6", "4", "7">>)

\* the literal as one writes its value: no leading zeros, no sign on zero
C17_Canonical(lit) ==
    LET neg == Head(lit) = "-"
        ds == C17_Significant(IF neg THEN Tail(lit) ELSE lit)
    IN IF neg /\ ds # <<"0">> THEN <<"-">> \o ds ELSE ds

\* C17: white space after the digits of a literal pushes an Integer token
\* whose value is the literal's decimal value when the literal lies in
\* -2^31..2^31-1, and makes Stream::new return the TokenError 'Malformed
\* integer', with no token for it, when it does not.
C17_IntegerValue ==
    [][(pc = "tokenize" /\ state = "Num" /\ offset < Len(data)
        /\ is_ascii_whitespace(data[offset + 1])) =>
          IF C17_Fits(acc)
          THEN /\ pc' = "tokenize"
               /\ Len(tokens') = Len(tokens) + 1
               /\ tokens'[Len(tokens')].kind = "Int"
               /\ fmt_i32(tokens'[Len(tokens')].val) = C17_Canonical(acc)
          ELSE /\ pc' = "failed"
               /\ err'.kind = "TokenError"
               /\ err'.err.msg = <<"Malformed integer">>
               /\ tokens' = tokens]_vars

\* C17 witness: the literal 2147483648 followed by a blank was refused as a
\* malformed integer.
C17_Witness ==
    /\ pc = "failed"
    /\ data = <<"2", "1", "4", "7", "4", "8", "3", "6", "4", "8", " ">>
    /\ offset = Len(data)
    /\ err.err.msg = <<"Malformed integer">>

\* the bytes the tokenizer has read since the first character of the token
\* it is reading are what the accumulator holds: the sign and digits of an
\* integer (the byte before them ended a token or is white space), or the bytes after the opening quote of a string, each backslash
\* removed and the byte after it kept
C31_AccSinceTokenStart ==
    CASE state \in {"Sign", "Num"} ->
            /\ Len(acc) \in 1..offset
            /\ acc = SubSeq(data, offset - Len(acc) + 1, offset)
            /\ offset - Len(acc) >= 1 =>
                  \/ is_ascii_whitespace(data[offset - Len(acc)])
                  \/ data[offset - Len(acc)] = "\""
      [] state \in {"Quote", "Escape"} ->
            \E q \in 1..offset :
               /\ data[q] = "\""
               /\ ~C12_Quoted(SubSeq(data, q + 1, offset)).closed
               /\ C12_Quoted(SubSeq(data, q + 1, offset)).val = acc
      [] OTHER -> TRUE

\* C31: as long as Stream::new has not returned an error, whenever the
\* tokenizer is in state Init its accumulator is empty, and in the other
\* states the accumulator holds only bytes read since the first character of
\* the token being read.
C31_AccEmptyInInit ==
    pc # "failed" =>
       /\ state = "Init" => acc = <<>>
       /\ C31_AccSinceTokenStart

\* C31 witness: after 12, CR, LF and the string a LF \b the tokenizer is back
\* in Init with two tokens pushed and the accumulator empty.
C31_Witness ==
    /\ pc = "tokenize"
    /\ offset = 11
    /\ Len(data) = 19
    /\ state = "Init"
    /\ acc = <<>>
    /\ Len(tokens) = 2
    /\ tokens[1].val = 12
    /\ tokens[2].val = <<"a", "\n", "\\", "b">>

(***************************************************************************)
(* A user of the Stream: Stream::new on one of StreamSamples, then at most *)
(* MaxPulls calls of next_int, next_str, next_token and done in any order. *)
(* pulled records each call: the tokens the Stream held when it was made   *)
(* and what it returned.                                                   *)
(***************************************************************************)
StreamSamples ==
    { <<>>,
      <<"5", " ", "\"", "h", "\"">>,
      <<"\"", "h", "\"", "5", " ", "5">>,
      HiThere,
      <<"1", "2", "\r", "\n", "\"", "a", "\n", "\\", "\\", "b", "\"", "\f", "-", "3", "4", "\t", "\"", "\"", "7">>,
      <<"\n", "\n", " ", "7", "\n", "\"", "\n", "\"", "8", " ">>,
      <<"3", "\"", "x", "\"">> }

\* stream.next_int()
PullInt ==
    /\ pc = "stream"
    /\ Len(pulled) < MaxPulls
    /\ LET r == next_int(tokens)
       IN /\ tokens' = r.rest
          /\ pulled' = Append(pulled, [call |-> "next_int", before |-> tokens,
                                       ret |-> IF r.ok THEN [ok |-> TRUE, val |-> r.val]
                                               ELSE [ok |-> FALSE, err |-> r.err]])
    /\ UNCHANGED <<tokvars, stored, pc, i, gamevars, err, out, unitvars, build, hanoivars, reversivars>>

\* stream.next_str()
PullStr ==
    /\ pc = "stream"
    /\ Len(pulled) < MaxPulls
    /\ LET r == next_str(tokens)
       IN /\ tokens' = r.rest
          /\ pulled' = Append(pulled, [call |-> "next_str", before |-> tokens,
                                       ret |-> IF r.ok THEN [ok |-> TRUE, val |-> r.val]
                                               ELSE [ok |-> FALSE, err |-> r.err]])
    /\ UNCHANGED <<tokvars, stored, pc, i, gamevars, err, out, unitvars, build, hanoivars, reversivars>>

\* stream.next_token()
PullToken ==
    /\ pc = "stream"
    /\ Len(pulled) < MaxPulls
    /\ LET r == next_token(tokens)
       IN /\ tokens' = r.rest
          /\ pulled' = Append(pulled, [call |-> "next_token", before |-> tokens, ret |-> r.val])
    /\ UNCHANGED <<tokvars, stored, pc, i, gamevars, err, out, unitvars, build, hanoivars, reversivars>>

\* stream.done()
CallDone ==
    /\ pc = "stream"
    /\ Len(pulled) < MaxPulls
    /\ pulled' = Append(pulled, [call |-> "done", before |-> tokens, ret |-> done(tokens)])
    /\ UNCHANGED <<tokvars, tokens, stored, pc, i, gamevars, err, out, unitvars, build, hanoivars, reversivars>>

InitStream ==
    /\ \E bytes \in StreamSamples : LoadIdle(bytes, "tokenize")
    /\ UnitIdle
    /\ build = "debug"
    /\ BoardsIdle

NextStream ==
    \/ TokenizeStep
    \/ StreamNewOk
    \/ PullInt
    \/ PullStr
    \/ PullToken
    \/ CallDone

SpecStream == InitStream /\ [][NextStream]_vars

\* the tokens the Stream held when the k-th call returned
C19_TokensAfter(k) == IF k < Len(pulled) THEN pulled[k + 1].before ELSE tokens

\* C18: next_int on an integer head returns its value, on a string head the
\* type-mismatch error and on an empty stream the unexpected-end error;
\* next_str returns the value of a string head, the type-mismatch error on an
\* integer head and the unexpected-end error on an empty stream.
C18_PullResult ==
    \A k \in 1..Len(pulled) :
       LET c == pulled[k]
           mine == IF c.call = "next_int" THEN "Int" ELSE "Str"
           mismatch == IF c.call = "next_int" THEN "Expected an integer, found a string"
                       ELSE "Expected a string, found an integer"
       IN c.call \in {"next_int", "next_str"} =>
             IF c.before = <<>>
             THEN ~c.ret.ok /\ c.ret.err.msg = "Unexpected end of stream"
             ELSE IF Head(c.before).kind = mine
             THEN c.ret = [ok |-> TRUE, val |-> Head(c.before).val]
             ELSE ~c.ret.ok /\ c.ret.err.msg = mismatch

\* C18 witness: on the stream of 5 "h", next_str failed on the integer,
\* next_str then returned h and next_int found the stream empty.
C18_Witness ==
    /\ Len(pulled) = 3
    /\ data = <<"5", " ", "\"", "h", "\"">>
    /\ pulled[1].call = "next_str" /\ ~pulled[1].ret.ok
    /\ pulled[1].ret.err.msg = "Expected a string, found an integer"
    /\ pulled[2].call = "next_str" /\ pulled[2].ret = [ok |-> TRUE, val |-> <<"h">>]
    /\ pulled[3].call = "next_int" /\ ~pulled[3].ret.ok
    /\ pulled[3].ret.err.msg = "Unexpected end of stream"

\* C19: every call of next_int, next_str or next_token on a Stream that holds
\* tokens leaves it holding all of them but the head, whatever the call
\* returned, and every such call on an empty Stream leaves it empty.
C19_PullRemovesHead ==
    \A k \in 1..Len(pulled) :
       pulled[k].call # "done" =>
          C19_TokensAfter(k) = IF pulled[k].before = <<>> THEN <<>> ELSE Tail(pulled[k].before)

\* C19 witness: next_int failed on a string head with a type mismatch, the
\* string was removed all the same, and the next call saw the token after it.
C19_Witness ==
    /\ Len(pulled) >= 2
    /\ pulled[1].call = "next_int"
    /\ pulled[1].before # <<>>
    /\ Head(pulled[1].before).kind = "Str"
    /\ ~pulled[1].ret.ok
    /\ pulled[2].before = Tail(pulled[1].before)
    /\ pulled[2].before # <<>>

\* the number of next_int, next_str and next_token calls made before the k-th call
C20_PullsBefore(k) == Cardinality({m \in 1..(k - 1) : pulled[m].call # "done"})

\* location a comes before location b in the input
C20_Before(a, b) == a.line < b.line \/ (a.line = b.line /\ a.col < b.col)

\* C20: the tokens Stream::new returned are in the order of their places in
\* the input; the j-th call of next_int, next_str or next_token is about the
\* j-th of them (it returns it, its value, or the type mismatch at its
\* location) and returns nothing once they are used up; and done returns
\* true exactly when as many such calls as there were tokens have been made.
C20_Fifo ==
    /\ \A a, b \in 1..Len(stored) : a < b => C20_Before(stored[a].loc, stored[b].loc)
    /\ \A k \in 1..Len(pulled) :
          LET c == pulled[k]
              j == C20_PullsBefore(k) + 1
          IN CASE c.call = "done" -> c.ret = (C20_PullsBefore(k) >= Len(stored))
               [] c.call = "next_token" ->
                     IF j > Len(stored) THEN c.ret = None
                     ELSE /\ c.ret.some
                          /\ c.ret.val.kind = stored[j].kind
                          /\ c.ret.val.loc = stored[j].loc
                          /\ c.ret.val.val = stored[j].val
               [] OTHER ->
                     IF j > Len(stored) THEN ~c.ret.ok
                     ELSE IF c.ret.ok
                     THEN /\ stored[j].kind = (IF c.call = "next_int" THEN "Int" ELSE "Str")
                          /\ c.ret.val = stored[j].val
                     ELSE c.ret.err.loc = stored[j].loc

\* C20 witness: on the stream of 7, a line feed as a string, 8: done said no,
\* then next_token gave the 7 and next_str the string.
C20_Witness ==
    /\ Len(pulled) = 3
    /\ Len(stored) = 3
    /\ pulled[1].call = "done" /\ pulled[1].ret = FALSE
    /\ pulled[2].call = "next_token" /\ pulled[2].ret = Some(stored[1])
    /\ stored[1].val = 7
    /\ pulled[3].call = "next_str" /\ pulled[3].ret = [ok |-> TRUE, val |-> <<"\n">>]

\* ---------------------------------------------------------------------------
\* Towers of Hanoi (src/misc/hanoi): a Board of three stacks of discs, each
\* stack held from its top (index 0) to its bottom, a disc being its size.
\* ---------------------------------------------------------------------------

\* the largest number of discs a Board is made with
MaxDiscs == 3

\* the pegs move_disc is called with
Pegs == 0..2

\* Board::new: the discs 0..discs-1 pushed on stack 0 in that order
Board_new(n) ==
    [p \in Pegs |-> IF p = 0 THEN [k \in 1..n |-> k - 1] ELSE <<>>]

\* move_disc without its comparison of the two top discs
move_disc_any_size(st, from, to) ==
    IF from = to \/ Len(st[from]) = 0
    THEN [ret |-> FALSE, stacks |-> st]
    ELSE [ret |-> TRUE,
          stacks |-> [st EXCEPT ![from] = Tail(st[from]),
                                ![to] = <<st[from][1]>> \o st[to]]]

\* move_disc with the disc inserted under the destination stack
move_disc_push_back(st, from, to) ==
    IF from = to THEN [ret |-> FALSE, stacks |-> st]
    ELSE IF Len(st[from]) = 0 THEN [ret |-> FALSE, stacks |-> st]
    ELSE IF Len(st[to]) > 0 /\ st[from][1] > st[to][1]
    THEN [ret |-> FALSE, stacks |-> st]
    ELSE [ret |-> TRUE,
          stacks |-> [st EXCEPT ![from] = Tail(st[from]),
                                ![to] = Append(st[to], st[from][1])]]

\* Board::move_disc: what it returns and the stacks it leaves
move_disc(st, from, to) ==
    IF from = to THEN [ret |-> FALSE, stacks |-> st]
    ELSE IF Len(st[from]) = 0 THEN [ret |-> FALSE, stacks |-> st]
    ELSE IF Len(st[to]) > 0 /\ st[from][1] > st[to][1]
    THEN [ret |-> FALSE, stacks |-> st]
    ELSE [ret |-> TRUE,
          stacks |-> [st EXCEPT ![from] = Tail(st[from]),
                                ![to] = <<st[from][1]>> \o st[to]]]

\* Board::won
won == Len(stacks[2]) = discs

\* a call of move_disc on the Board; the call is kept with the stacks it found
MoveDisc ==
    /\ pc = "hanoi"
    /\ \E from \in Pegs, to \in Pegs :
          LET r == move_disc(stacks, from, to)
          IN /\ stacks' = r.stacks
             /\ pulled' = <<[call |-> "move_disc", from |-> from, to |-> to,
                             before |-> stacks, ret |-> r.ret]>>
    /\ UNCHANGED <<loadvars, unitvars, build, discs, reversivars>>

InitHanoi ==
    /\ LoadIdle(<<>>, "hanoi")
    /\ UnitIdle
    /\ build = "debug"
    /\ discs \in 0..MaxDiscs
    /\ stacks = Board_new(discs)
    /\ squares = <<>>
    /\ scores = <<>>

SpecHanoi == InitHanoi /\ [][MoveDisc]_vars

\* the places of the three stacks that hold disc d
C34_Places(d) ==
    {pk \in Pegs \X (1..discs) : pk[2] <= Len(stacks[pk[1]]) /\ stacks[pk[1]][pk[2]] = d}

\* C34: from Board::new(discs) and after any calls of move_disc with pegs in
\* 0..2, every stack is strictly increasing in disc size from its top to its
\* bottom, and the three stacks hold each disc 0..discs-1 exactly once.
C34_StacksOrdered ==
    pc = "hanoi" =>
       /\ \A p \in Pegs : \A k \in 1..(Len(stacks[p]) - 1) : stacks[p][k] < stacks[p][k + 1]
       /\ Len(stacks[0]) + Len(stacks[1]) + Len(stacks[2]) = discs
       /\ \A d \in 0..(discs - 1) : Cardinality(C34_Places(d)) = 1

\* C34 witness: three discs, all moved to the last stack
C34_Witness ==
    /\ pc = "hanoi"
    /\ discs = 3
    /\ stacks[2] = <<0, 1, 2>>
    /\ won
    /\ pulled[1].ret

\* the call is one move_disc refuses: same peg, empty source, or a larger disc
\* onto a smaller one
C35_Refused(c) ==
    \/ c.from = c.to
    \/ c.before[c.from] = <<>>
    \/ /\ c.before[c.to] # <<>>
       /\ c.before[c.from][1] > c.before[c.to][1]

\* C35: move_disc returns false and leaves the stacks as they were when the
\* pegs are the same, the source is empty or the source's top disc is larger
\* than the destination's; otherwise it returns true, takes the top disc of
\* the source, puts it on top of the destination and leaves the third stack.
C35_MoveDisc ==
    (pc = "hanoi" /\ pulled # <<>>) =>
       LET c == pulled[1]
       IN IF C35_Refused(c)
          THEN ~c.ret /\ stacks = c.before
          ELSE /\ c.ret
               /\ c.before[c.from] = <<stacks[c.to][1]>> \o stacks[c.from]
               /\ stacks[c.to] = <<c.before[c.from][1]>> \o c.before[c.to]
               /\ \A p \in Pegs \ {c.from, c.to} : stacks[p] = c.before[p]

\* C35 witness: disc 1 was refused on top of disc 0, the stacks are unchanged
C35_Witness ==
    /\ pc = "hanoi"
    /\ pulled # <<>>
    /\ ~pulled[1].ret
    /\ pulled[1].from = 0 /\ pulled[1].to = 1
    /\ pulled[1].before[0] = <<1, 2>>
    /\ pulled[1].before[1] = <<0>>
    /\ stacks = pulled[1].before

\* ---------------------------------------------------------------------------
\* Reversi (src/misc/reversi/src/board.rs): a Board of 8x8 squares,
\* squares[row][col], and the two scores kept beside it.
\* ---------------------------------------------------------------------------

\* the largest number of do_move calls made on a Board
MaxMoves == 4

EMPTY == 0

HUMAN == 1

COMPUTER == 2

\* the columns and the rows of the board
Side == 0..7

\* the player values count_move and do_move are called with
Players == 0..3

\* Board::OFFSETS: the column delta and the row delta of direction 0..7
OFFSETS ==
    <<<<1, 0>>, <<1, -1>>, <<0, -1>>, <<-1, -1>>, <<-1, 0>>, <<-1, 1>>, <<0, 1>>, <<1, 1>>>>

Dirs == 0..7

\* player ^ 0b11 on the values 0..3
xor3(player) == 3 - player

\* Board::get
get(sq, col, row) == sq[row][col]

\* Board::set
set(sq, col, row, value) == [sq EXCEPT ![row][col] = value]

\* Board::new
Reversi_new ==
    [squares |-> set(set(set(set([r \in Side |-> [c \in Side |-> EMPTY]],
                                 3, 3, HUMAN), 4, 4, HUMAN), 3, 4, COMPUTER), 4, 3, COMPUTER),
     scores |-> <<2, 2>>]

\* the loop of count_in_dir, standing on (col, row) with found pieces counted
RECURSIVE count_loop(_, _, _, _, _, _)
count_loop(sq, col, row, player, dir, found) ==
    LET c == col + OFFSETS[dir + 1][1]
        r == row + OFFSETS[dir + 1][2]
    IN IF c \notin Side THEN 0
       ELSE IF r \notin Side THEN 0
       ELSE IF get(sq, c, r) = player THEN found
       ELSE IF get(sq, c, r) = xor3(player)
       THEN count_loop(sq, c, r, player, dir, found + 1)
       ELSE 0

\* the loop of count_in_dir returning what it counted when it leaves the board
RECURSIVE count_loop_to_edge(_, _, _, _, _, _)
count_loop_to_edge(sq, col, row, player, dir, found) ==
    LET c == col + OFFSETS[dir + 1][1]
        r == row + OFFSETS[dir + 1][2]
    IN IF c \notin Side THEN found
       ELSE IF r \notin Side THEN found
       ELSE IF get(sq, c, r) = player THEN found
       ELSE IF get(sq, c, r) = xor3(player)
       THEN count_loop_to_edge(sq, c, r, player, dir, found + 1)
       ELSE 0

\* count_in_dir counting up to the edge of the board
count_in_dir_to_edge(sq, col, row, player, dir) ==
    count_loop_to_edge(sq, col, row, player, dir, 0)

\* Board::count_in_dir
count_in_dir(sq, col, row, player, dir) ==
    count_loop(sq, col, row, player, dir, 0)

\* the loop of count_move over the directions dir..7
RECURSIVE count_dirs(_, _, _, _, _)
count_dirs(sq, col, row, player, dir) ==
    IF dir \notin Dirs THEN 0
    ELSE count_in_dir(sq, col, row, player, dir) + count_dirs(sq, col, row, player, dir + 1)

\* Board::count_move
count_move(sq, col, row, player) ==
    IF get(sq, col, row) = EMPTY THEN count_dirs(sq, col, row, player, 0) ELSE 0

\* flip leaving the scores as they are
flip_keep_scores(b, col, row) ==
    [b EXCEPT !.squares = set(b.squares, col, row, xor3(get(b.squares, col, row)))]

\* Board::flip on a Board [squares, scores, panicked]; scores[old - 1] of an
\* empty square is an index out of range
flip(b, col, row) ==
    LET old == get(b.squares, col, row)
        new == xor3(old)
    IN IF old = EMPTY
       THEN [b EXCEPT !.squares = set(b.squares, col, row, new), !.panicked = TRUE]
       ELSE [b EXCEPT !.squares = set(b.squares, col, row, new),
                      !.scores = [@ EXCEPT ![old] = @ - 1, ![new] = @ + 1]]

\* Board::flip_dir; a get outside the board is an index out of range
RECURSIVE flip_dir(_, _, _, _, _)
flip_dir(b, col, row, player, dir) ==
    LET c == col + OFFSETS[dir + 1][1]
        r == row + OFFSETS[dir + 1][2]
    IN IF c \notin Side \/ r \notin Side THEN [b EXCEPT !.panicked = TRUE]
       ELSE IF get(b.squares, c, r) = player THEN b
       ELSE LET f == flip(b, c, r)
            IN IF f.panicked THEN f ELSE flip_dir(f, c, r, player, dir)

\* the loop of do_move over the directions dir..7
RECURSIVE flip_dirs(_, _, _, _, _)
flip_dirs(b, col, row, player, dir) ==
    IF dir \notin Dirs \/ b.panicked THEN b
    ELSE flip_dirs(IF count_in_dir(b.squares, col, row, player, dir) > 0
                   THEN flip_dir(b, col, row, player, dir)
                   ELSE b,
                   col, row, player, dir + 1)

\* Board::do_move, for a player 1 or 2
do_move(b, col, row, player) ==
    flip_dirs([squares |-> set(b.squares, col, row, player),
               scores |-> [b.scores EXCEPT ![player] = @ + 1],
               panicked |-> FALSE],
              col, row, player, 0)

\* Board::get_score
get_score(sc, player) ==
    IF player = HUMAN \/ player = COMPUTER THEN Some(sc[player]) ELSE None

\* a call of do_move on a move count_move gives more than 0 for; the call is
\* kept with the squares it found and what count_move said
DoMove ==
    /\ pc = "reversi"
    /\ Len(pulled) < MaxMoves
    /\ \E col \in Side, row \in Side, player \in Players :
          /\ count_move(squares, col, row, player) > 0
          /\ LET b == do_move([squares |-> squares, scores |-> scores], col, row, player)
             IN /\ squares' = b.squares
                /\ scores' = b.scores
                /\ pc' = IF b.panicked THEN "panic" ELSE "reversi"
                /\ pulled' = Append(pulled,
                                    [call |-> "do_move", col |-> col, row |-> row,
                                     player |-> player, before |-> squares,
                                     count |-> count_move(squares, col, row, player)])
    /\ UNCHANGED <<tokvars, tokens, stored, i, gamevars, err, out, unitvars, build, hanoivars>>

InitReversi ==
    /\ LoadIdle(<<>>, "reversi")
    /\ UnitIdle
    /\ build = "debug"
    /\ discs = 0
    /\ stacks = <<>>
    /\ squares = Reversi_new.squares
    /\ scores = Reversi_new.scores

SpecReversi == InitReversi /\ [][DoMove]_vars

\* the squares of the board holding the value v
C36_Holding(v) == {cr \in Side \X Side : get(squares, cr[1], cr[2]) = v}

\* C36: from Board::new and after any do_move calls, each on a move with
\* count_move > 0, get_score(player) is the number of squares holding that
\* player's piece, for both players, and the two scores sum to the number of
\* squares that are not empty.
C36_ScoresCountPieces ==
    pc \in {"reversi", "panic"} =>
       /\ pc = "reversi"
       /\ \A player \in {HUMAN, COMPUTER} :
             /\ get_score(scores, player).some
             /\ get_score(scores, player).val = Cardinality(C36_Holding(player))
       /\ get_score(scores, HUMAN).val + get_score(scores, COMPUTER).val
             = 64 - Cardinality(C36_Holding(EMPTY))

\* C36 witness: after four moves the human holds seven squares and the
\* computer one
C36_Witness ==
    /\ pc = "reversi"
    /\ Len(pulled) = 4
    /\ get_score(scores, HUMAN).val = 7
    /\ get_score(scores, COMPUTER).val = 1

\* the square k steps from (col, row) in direction dir
C37_At(col, row, dir, k) ==
    <<col + k * OFFSETS[dir + 1][1], row + k * OFFSETS[dir + 1][2]>>

\* square cr is on the board and holds v
C37_Holds(sq, cr, v) ==
    cr[1] \in Side /\ cr[2] \in Side /\ get(sq, cr[1], cr[2]) = v

\* the length of the run of the opponent's pieces that starts k steps from
\* (col, row) in direction dir
RECURSIVE C37_Run(_, _, _, _, _, _)
C37_Run(sq, col, row, player, dir, k) ==
    IF C37_Holds(sq, C37_At(col, row, dir, k), xor3(player))
    THEN 1 + C37_Run(sq, col, row, player, dir, k + 1)
    ELSE 0

\* the opponent's pieces a move of player to (col, row) encloses in direction
\* dir: the run of opponent's pieces next to it, when one of the player's own
\* pieces ends the run
C37_EnclosedIn(sq, col, row, player, dir) ==
    LET n == C37_Run(sq, col, row, player, dir, 1)
    IN IF C37_Holds(sq, C37_At(col, row, dir, n + 1), player)
       THEN {C37_At(col, row, dir, k) : k \in 1..n}
       ELSE {}

\* the opponent's pieces a move of player to (col, row) encloses
C37_Enclosed(sq, col, row, player) ==
    UNION {C37_EnclosedIn(sq, col, row, player, dir) : dir \in Dirs}

\* count_move, on the board as it is, gives the number of enclosed pieces on
\* an empty square and 0 on a taken one
C37_CountMove ==
    \A col \in Side, row \in Side, player \in {HUMAN, COMPUTER} :
       count_move(squares, col, row, player) =
          IF get(squares, col, row) = EMPTY
          THEN Cardinality(C37_Enclosed(squares, col, row, player))
          ELSE 0

\* the last do_move put one piece and turned the enclosed pieces and no others
C37_DoMove ==
    pulled # <<>> =>
       LET c == pulled[Len(pulled)]
           turned == C37_Enclosed(c.before, c.col, c.row, c.player)
       IN /\ c.player \in {HUMAN, COMPUTER}
          /\ get(c.before, c.col, c.row) = EMPTY
          /\ c.count = Cardinality(turned)
          /\ c.count > 0
          /\ turned \subseteq Side \X Side
          /\ \A cr \in Side \X Side :
                get(squares, cr[1], cr[2]) =
                   IF cr = <<c.col, c.row>> THEN c.player
                   ELSE IF cr \in turned THEN c.player
                   ELSE get(c.before, cr[1], cr[2])
          /\ \A cr \in turned : get(c.before, cr[1], cr[2]) = xor3(c.player)

\* C37: count_move returns the number of opponent pieces the move would flip,
\* and 0 exactly when the move is illegal (the square is taken or nothing
\* would be flipped); do_move on a move with count_move = k > 0 puts one
\* piece, flips exactly those k opponent pieces and no others, stays on the
\* 8x8 board and leaves every other square as it was.
C37_MoveFlipsCounted ==
    pc \in {"reversi", "panic"} =>
       /\ pc = "reversi"
       /\ C37_CountMove
       /\ C37_DoMove

\* C37 witness: a move that turned pieces in more than one direction
C37_Witness ==
    /\ pc = "reversi"
    /\ pulled # <<>>
    /\ pulled[Len(pulled)].count >= 2
    /\ \E d1, d2 \in Dirs :
          /\ d1 # d2
          /\ count_in_dir(pulled[Len(pulled)].before, pulled[Len(pulled)].col,
                          pulled[Len(pulled)].row, pulled[Len(pulled)].player, d1) > 0
          /\ count_in_dir(pulled[Len(pulled)].before, pulled[Len(pulled)].col,
                          pulled[Len(pulled)].row, pulled[Len(pulled)].player, d2) > 0

====
